---------------------------- MODULE Spec2Model ----------------------------
(***************************************************************************)
(* A model of smart-commit's diff-analysis and prompt-construction code.   *)
(*                                                                         *)
(* Text is modelled as Python models it: a string is a sequence of         *)
(* one-character strings, "\n" included, and the str methods the code uses *)
(* (split, startswith, endswith, find, in, lower, slicing) are operators   *)
(* over such sequences.  A dict the code mutates in place is an object of  *)
(* a heap, referred to by its identity, so that the same object appended   *)
(* to a list twice is visible as such.                                     *)
(***************************************************************************)
EXTENDS Integers, Sequences, FiniteSets, TLC

VARIABLES
    diff,   \* the diff text handed to the analysers (diff_content)
    call,   \* the API call made on it and what it returned
    template_config, \* the configuration the prompt builder was made with
    cwd,             \* the working directory of the process
    file_system,     \* absolute path -> entry
    response,        \* the text the language model answered with
    cache_files,     \* the cache directory: cache key -> content of <key>.json
    cache_log,       \* (model, diff) -> what was last set for it and not cleared
    clock,           \* time.time(), in ticks
    ai_config,       \* the AIConfig of the configuration object in use
    config_file,     \* the global config.toml: absent, or its tables
    processes        \* the cache calls under way in concurrent processes

cache_vars == <<cache_files, cache_log, clock>>

config_vars == <<ai_config, config_file>>

vars == <<diff, call, template_config, cwd, file_system, response, cache_vars,
          config_vars, processes>>

(***************************************************************************)
(* Python str operations                                                   *)
(***************************************************************************)

\* s.startswith(p)
StartsWith(s, p) ==
    /\ Len(s) >= Len(p)
    /\ SubSeq(s, 1, Len(p)) = p

\* s.endswith(p)
EndsWith(s, p) ==
    /\ Len(s) >= Len(p)
    /\ SubSeq(s, Len(s) - Len(p) + 1, Len(s)) = p

\* s.find(sub): the lowest 0-based index at which sub occurs in s, or -1
Find(s, sub) ==
    LET hits == {i \in 1..(Len(s) - Len(sub) + 1) : SubSeq(s, i, i + Len(sub) - 1) = sub}
    IN  IF hits = {} THEN -1
        ELSE (CHOOSE i \in hits : \A j \in hits : i <= j) - 1

\* sub in s
Contains(s, sub) == Find(s, sub) # -1

\* s[k:] for a 0-based k >= 0
SliceFrom(s, k) == SubSeq(s, k + 1, Len(s))

\* s[:k] for k >= 0
SliceTo(s, k) == SubSeq(s, 1, IF k < Len(s) THEN k ELSE Len(s))

\* s[-k:] for k > 0
SliceLast(s, k) == IF k >= Len(s) THEN s ELSE SubSeq(s, Len(s) - k + 1, Len(s))

\* s.split(sep) for a one-character sep: always at least one part
RECURSIVE Split(_, _)
Split(s, sep) ==
    LET at == Find(s, <<sep>>)
    IN  IF at = -1 THEN <<s>>
        ELSE <<SliceTo(s, at)>> \o Split(SliceFrom(s, at + 1), sep)

\* sep.join(parts) for a string sep
RECURSIVE Join(_, _)
Join(parts, sep) ==
    IF parts = <<>> THEN <<>>
    ELSE IF Len(parts) = 1 THEN parts[1]
    ELSE parts[1] \o sep \o Join(Tail(parts), sep)

UpperChars == <<"A","B","C","D","E","F","G","H","I","J","K","L","M",
                "N","O","P","Q","R","S","T","U","V","W","X","Y","Z">>
LowerChars == <<"a","b","c","d","e","f","g","h","i","j","k","l","m",
                "n","o","p","q","r","s","t","u","v","w","x","y","z">>

\* the lower-case form of each upper-case letter, and the reverse
ToLower == [c \in {UpperChars[i] : i \in 1..26} |->
               LowerChars[CHOOSE i \in 1..26 : UpperChars[i] = c]]
ToUpper == [c \in {LowerChars[i] : i \in 1..26} |->
               UpperChars[CHOOSE i \in 1..26 : LowerChars[i] = c]]

\* c.lower() for one character
LowerChar(c) == IF c \in DOMAIN ToLower THEN ToLower[c] ELSE c

\* s.lower()
Lower(s) == [i \in 1..Len(s) |-> LowerChar(s[i])]

\* sum of a sequence of integers
RECURSIVE SumSeq(_)
SumSeq(ns) == IF ns = <<>> THEN 0 ELSE Head(ns) + SumSeq(Tail(ns))

(***************************************************************************)
(* Literals of the diff format                                             *)
(***************************************************************************)
NL == "\n"
DiffGit == <<"d","i","f","f"," ","-","-","g","i","t">>
BMarker == <<" ","b","/">>
Plus == <<"+">>
Plus3 == <<"+","+","+">>
Minus == <<"-">>

\* line.startswith('diff --git')
IsHeader(line) == StartsWith(line, DiffGit)
\* line.startswith('+') and not line.startswith('+++')
IsAddition(line) == StartsWith(line, Plus) /\ ~StartsWith(line, Plus3)
\* line.startswith('-') and not line.startswith('---')
IsDeletion(line) == StartsWith(line, Minus) /\ ~StartsWith(line, <<"-","-","-">>)


(***************************************************************************)
(* _parse_diff_files (analyzers/commit_splitter.py)                        *)
(*                                                                         *)
(* The loop's locals are kept in a record: files is the result list, a     *)
(* list of references into heap; cur is current_file, a reference or None; *)
(* heap[r] is the dict object r, whose 'additions' and 'deletions' keys    *)
(* are Absent until the object is flushed.                                 *)
(***************************************************************************)
None == 0
Absent == -1

ParseInit ==
    [files |-> <<>>, cur |-> None, additions |-> 0, deletions |-> 0, heap |-> <<>>]

\* if current_file: set its counts and append it to files
Flush(st) ==
    IF st.cur # None
    THEN [st EXCEPT !.heap[st.cur].additions = st.additions,
                    !.heap[st.cur].deletions = st.deletions,
                    !.files = Append(st.files, st.cur)]
    ELSE st

\* the "Start new file" part of the header branch
StartNewFile(st, line) ==
    LET parts == Split(line, " ")
        b_index == Find(line, BMarker)
    IN  IF Len(parts) >= 4 /\ b_index # -1
        THEN [st EXCEPT !.heap = Append(st.heap,
                                   [path |-> SliceFrom(line, b_index + 3),
                                    additions |-> Absent, deletions |-> Absent]),
                        !.cur = Len(st.heap) + 1,
                        !.additions = 0,
                        !.deletions = 0]
        ELSE st

\* one iteration of the loop over diff_content.split('\n')
ParseLine(st, line) ==
    IF IsHeader(line) THEN StartNewFile(Flush(st), line)
    ELSE IF IsAddition(line) THEN [st EXCEPT !.additions = st.additions + 1]
    ELSE IF IsDeletion(line) THEN [st EXCEPT !.deletions = st.deletions + 1]
    ELSE st

RECURSIVE ParseLines(_, _)
ParseLines(st, lines) ==
    IF lines = <<>> THEN st ELSE ParseLines(ParseLine(st, Head(lines)), Tail(lines))

\* the locals of _parse_diff_files at its return statement
ParseRun(text) == Flush(ParseLines(ParseInit, Split(text, NL)))

\* what _parse_diff_files returns: the dicts the result list refers to, as
\* the caller reads them
ParseDiffFiles(text) ==
    LET st == ParseRun(text)
    IN  [i \in 1..Len(st.files) |-> st.heap[st.files[i]]]


(***************************************************************************)
(* validate_diff_size and the counts of analyze_diff_impact (utils.py)     *)
(***************************************************************************)
DefaultMaxLines == 500
DefaultMaxChars == 50000
FileCountWarn == 20

\* ValidateDiffSize with a high file count invalidating the diff as well
ValidateDiffSizeStrict(diff_content, max_lines, max_chars) ==
    LET lines == Split(diff_content, NL)
        line_count == Len(lines)
        char_count == Len(diff_content)
        file_count == Len(SelectSeq(lines, IsHeader))
        w1 == IF line_count > max_lines
              THEN <<[about |-> "lines", n |-> line_count]>> ELSE <<>>
        w2 == IF char_count > max_chars
              THEN <<[about |-> "characters", n |-> char_count]>> ELSE <<>>
        w3 == IF file_count > FileCountWarn
              THEN <<[about |-> "files", n |-> file_count]>> ELSE <<>>
    IN  [is_valid |-> (w1 \o w2 \o w3) = <<>>,
         warnings |-> w1 \o w2 \o w3,
         line_count |-> line_count,
         char_count |-> char_count,
         file_count |-> file_count]

\* a warning is kept as the condition it reports and the number its text embeds
ValidateDiffSize(diff_content, max_lines, max_chars) ==
    LET lines == Split(diff_content, NL)
        line_count == Len(lines)
        char_count == Len(diff_content)
        file_count == Len(SelectSeq(lines, IsHeader))
        w1 == IF line_count > max_lines
              THEN <<[about |-> "lines", n |-> line_count]>> ELSE <<>>
        w2 == IF char_count > max_chars
              THEN <<[about |-> "characters", n |-> char_count]>> ELSE <<>>
        w3 == IF file_count > FileCountWarn
              THEN <<[about |-> "files", n |-> file_count]>> ELSE <<>>
    IN  [is_valid |-> ~(line_count > max_lines) /\ ~(char_count > max_chars),
         warnings |-> w1 \o w2 \o w3,
         line_count |-> line_count,
         char_count |-> char_count,
         file_count |-> file_count]

\* the additions and deletions analyze_diff_impact reports
ImpactCounts(diff_content) ==
    LET lines == Split(diff_content, NL)
    IN  [additions |-> Len(SelectSeq(lines, IsAddition)),
         deletions |-> Len(SelectSeq(lines, IsDeletion))]

(***************************************************************************)
(* analyze_commit_split (analyzers/commit_splitter.py)                     *)
(***************************************************************************)
NoSplitMax == 5
MinScopeGroup == 2

S_test == <<"t","e","s","t">>
TestSuffixes ==
    {<<"_","t","e","s","t",".","p","y">>,
     <<".","t","e","s","t",".","j","s">>,
     <<".","s","p","e","c",".","j","s">>,
     <<".","t","e","s","t",".","t","s">>,
     <<".","s","p","e","c",".","t","s">>}

EndsWithAny(s, sufs) == \E suf \in sufs : EndsWith(s, suf)

IsTestFile(filepath) ==
    \/ Contains(Lower(filepath), S_test)
    \/ StartsWith(filepath, <<"t","e","s","t","s","/">>)
    \/ EndsWithAny(filepath, TestSuffixes)

S_doc == <<"d","o","c">>
DocSuffixes == {<<".","m","d">>, <<".","r","s","t">>, <<".","t","x","t">>}

IsDocFile(filepath) ==
    \/ EndsWithAny(filepath, DocSuffixes)
    \/ Contains(Lower(filepath), S_doc)
    \/ StartsWith(filepath, <<"d","o","c","s","/">>)

ConfigPatterns ==
    {<<".","t","o","m","l">>,
     <<".","y","a","m","l">>,
     <<".","y","m","l">>,
     <<".","j","s","o","n">>,
     <<".","i","n","i">>,
     <<".","c","f","g">>,
     <<"D","o","c","k","e","r","f","i","l","e">>,
     <<"d","o","c","k","e","r","-","c","o","m","p","o","s","e">>,
     <<".","e","n","v">>,
     <<"r","e","q","u","i","r","e","m","e","n","t","s">>,
     <<"p","a","c","k","a","g","e",".","j","s","o","n">>,
     <<"p","a","c","k","a","g","e","-","l","o","c","k",".","j","s","o","n">>,
     <<"C","a","r","g","o",".","t","o","m","l">>,
     <<"g","o",".","m","o","d">>,
     <<"g","o",".","s","u","m">>,
     <<"p","o","m",".","x","m","l">>,
     <<"b","u","i","l","d",".","g","r","a","d","l","e">>}

IsConfigFile(filepath) ==
    LET filepath_lower == Lower(filepath)
    IN  \E pattern \in ConfigPatterns : Contains(filepath_lower, pattern)

S_src == <<"s","r","c">>
S_lib == <<"l","i","b">>

\* the scope _group_by_scope files a path under
ScopeOfPath(filepath) ==
    LET parts == Split(filepath, "/")
    IN  IF Len(parts) > 1
        THEN IF parts[1] \in {S_src, S_lib} THEN parts[2] ELSE parts[1]
        ELSE <<"r","o","o","t">>

\* the keys of a dict in insertion order, the keys being inserted in this order
RECURSIVE KeysInOrder(_, _)
KeysInOrder(keys, seen) ==
    IF keys = <<>> THEN <<>>
    ELSE IF Head(keys) \in seen THEN KeysInOrder(Tail(keys), seen)
    ELSE <<Head(keys)>> \o KeysInOrder(Tail(keys), seen \cup {Head(keys)})

\* _group_by_scope: the dict scope -> files as its items in insertion order
GroupByScope(files) ==
    LET scopes == [i \in 1..Len(files) |-> ScopeOfPath(files[i].path)]
        keys == KeysInOrder(scopes, {})
        Members(k) == LET In(f) == ScopeOfPath(f.path) = k IN SelectSeq(files, In)
    IN  [i \in 1..Len(keys) |-> [scope |-> keys[i], files |-> Members(keys[i])]]

IsLetter(c) == c \in DOMAIN ToLower \/ c \in DOMAIN ToUpper

\* c.upper() for one character
UpperChar(c) == IF c \in DOMAIN ToUpper THEN ToUpper[c] ELSE c

\* s.title(): a letter that follows no letter is upper-cased, the others lower-cased
Title(s) ==
    [i \in 1..Len(s) |->
        IF i = 1 \/ ~IsLetter(s[i - 1]) THEN UpperChar(s[i]) ELSE LowerChar(s[i])]

PathsOf(files) == [i \in 1..Len(files) |-> files[i].path]

S_docs == <<"d","o","c","s">>
S_config == <<"c","o","n","f","i","g">>
R_Tests ==
    <<"S","e","p","a","r","a","t","e"," ","t","e","s","t"," ","c","h","a","n","g","e","s"," ","f","o","r"," ","e","a","s","i","e","r"," ","r","e","v","i","e","w"," ","a","n","d"," ","C","I"," ","v","a","l","i","d","a","t","i","o","n">>
R_Documentation ==
    <<"D","o","c","u","m","e","n","t","a","t","i","o","n"," ","u","p","d","a","t","e","s"," ","i","n","d","e","p","e","n","d","e","n","t"," ","o","f"," ","c","o","d","e"," ","c","h","a","n","g","e","s">>
R_Configuration ==
    <<"C","o","n","f","i","g","u","r","a","t","i","o","n"," ","c","h","a","n","g","e","s"," ","t","h","a","t"," ","a","f","f","e","c","t"," ","b","u","i","l","d","/","d","e","p","l","o","y">>

TestsPriority == 3
DocsPriority == 4
ConfigPriority == 2
ScopePriority == 1

\* every scope group emitted, also that of a single file
ScopeGroupQualifiesAlone(files) == Len(files) >= 1

\* a scope group is emitted only if len(files) >= 2
ScopeGroupQualifies(files) == Len(files) >= MinScopeGroup

\* xs with x inserted after every element whose priority is not higher: the
\* step of a stable sort on priority
RECURSIVE InsertByPriority(_, _)
InsertByPriority(xs, x) ==
    IF xs = <<>> THEN <<x>>
    ELSE IF Head(xs).priority <= x.priority
         THEN <<Head(xs)>> \o InsertByPriority(Tail(xs), x)
         ELSE <<x>> \o xs

\* groups.sort(key=lambda g: g.priority): list.sort is stable
RECURSIVE SortByPriority(_)
SortByPriority(gs) ==
    IF gs = <<>> THEN <<>>
    ELSE InsertByPriority(SortByPriority(SubSeq(gs, 1, Len(gs) - 1)), gs[Len(gs)])

\* SmallEnough with the threshold off by one
SmallEnoughBelow(files_data) == Len(files_data) < NoSplitMax

\* len(files_data) <= 5: small enough, no split needed
SmallEnough(files_data) == Len(files_data) <= NoSplitMax

\* the groups of analyze_commit_split before the final sort
SplitGroups(files_data) ==
    LET IsTest(f) == IsTestFile(f.path)
        IsDoc(f) == IsDocFile(f.path)
        IsConfig(f) == IsConfigFile(f.path)
        test_files == SelectSeq(files_data, IsTest)
        doc_files == SelectSeq(files_data, IsDoc)
        config_files == SelectSeq(files_data, IsConfig)
        InSeq(f, fs) == \E i \in 1..Len(fs) : fs[i] = f
        IsRemaining(f) ==
            ~InSeq(f, test_files) /\ ~InSeq(f, doc_files) /\ ~InSeq(f, config_files)
        remaining_files == SelectSeq(files_data, IsRemaining)
        Keep(g) == ScopeGroupQualifies(g.files)
        scope_groups == SelectSeq(GroupByScope(remaining_files), Keep)
    IN  (IF test_files # <<>>
         THEN <<[name |-> <<"T","e","s","t","s">>, files |-> PathsOf(test_files),
                 reason |-> R_Tests, scope |-> S_test, priority |-> TestsPriority]>>
         ELSE <<>>)
        \o
        (IF doc_files # <<>>
         THEN <<[name |-> <<"D","o","c","u","m","e","n","t","a","t","i","o","n">>, files |-> PathsOf(doc_files),
                 reason |-> R_Documentation, scope |-> S_docs, priority |-> DocsPriority]>>
         ELSE <<>>)
        \o
        (IF config_files # <<>>
         THEN <<[name |-> <<"C","o","n","f","i","g","u","r","a","t","i","o","n">>, files |-> PathsOf(config_files),
                 reason |-> R_Configuration, scope |-> S_config, priority |-> ConfigPriority]>>
         ELSE <<>>)
        \o
        [i \in 1..Len(scope_groups) |->
            [name |-> Title(scope_groups[i].scope) \o <<" ","C","h","a","n","g","e","s">>,
             files |-> PathsOf(scope_groups[i].files),
             reason |-> <<"R","e","l","a","t","e","d"," ">> \o scope_groups[i].scope \o <<" ","f","u","n","c","t","i","o","n","a","l","i","t","y"," ","c","h","a","n","g","e","s">>,
             scope |-> scope_groups[i].scope,
             priority |-> ScopePriority]]

AnalyzeCommitSplit(diff_content) ==
    LET files_data == ParseDiffFiles(diff_content)
    IN  IF SmallEnough(files_data) THEN <<>>
        ELSE SortByPriority(SplitGroups(files_data))

(***************************************************************************)
(* Regular expressions (Python's re), as far as the catalogs use them      *)
(*                                                                         *)
(* A pattern is a sequence of atoms, matched by backtracking in Python's   *)
(* order of preference:                                                    *)
(*   [k |-> "lit", alts]                  one of the literals, first first *)
(*   [k |-> "cls", neg, chars, min, max, lazy]                             *)
(*                                        a character class repeated min   *)
(*                                        to max times (max = Unbounded:   *)
(*                                        no limit), greedy unless lazy    *)
(* ic is the (?i) flag.                                                    *)
(***************************************************************************)
Unbounded == -1

Lit(str) == [k |-> "lit", alts |-> <<str>>]
Alt(strs) == [k |-> "lit", alts |-> strs]
Cls(chars, min, max) ==
    [k |-> "cls", neg |-> FALSE, chars |-> chars, min |-> min, max |-> max, lazy |-> FALSE]
NotCls(chars, min, max) ==
    [k |-> "cls", neg |-> TRUE, chars |-> chars, min |-> min, max |-> max, lazy |-> FALSE]
Lazy(atom) == [atom EXCEPT !.lazy = TRUE]

Digits == {"0","1","2","3","4","5","6","7","8","9"}
LowerSet == {LowerChars[i] : i \in 1..26}
UpperSet == {UpperChars[i] : i \in 1..26}
Alnum == Digits \cup LowerSet \cup UpperSet
\* \s, for the ASCII whitespace a TLA+ string can hold
Whitespace == {" ", "\t", "\n", "\r", "\f"}
Quotes == {"'", "\""}

\* does the character c match the class of the atom
ClassHas(atom, c, ic) ==
    LET in == \/ c \in atom.chars
              \/ ic /\ (LowerChar(c) \in atom.chars \/ UpperChar(c) \in atom.chars)
    IN  IF atom.neg THEN ~in ELSE in

\* does the literal occur in s at the 0-based offset pos
LitAt(s, pos, lit, ic) ==
    /\ pos + Len(lit) <= Len(s)
    /\ \A i \in 1..Len(lit) :
          IF ic THEN LowerChar(s[pos + i]) = LowerChar(lit[i])
                ELSE s[pos + i] = lit[i]

\* the number of characters from offset pos on that match the class, at most cap
ClassRun(atom, s, pos, ic, cap) ==
    LET last == IF pos + cap < Len(s) THEN pos + cap ELSE Len(s)
        stops == {i \in (pos + 1)..last : ~ClassHas(atom, s[i], ic)}
    IN  IF stops = {} THEN last - pos
        ELSE (CHOOSE i \in stops : \A j \in stops : i <= j) - pos - 1

\* the offset at which the match of atoms k.. of pat that starts at offset
\* pos ends, or -1 if there is none
RECURSIVE MatchEnd(_, _, _, _, _)
MatchEnd(pat, k, s, pos, ic) ==
    IF k > Len(pat) THEN pos
    ELSE LET atom == pat[k] IN
         IF atom.k = "lit"
         THEN LET tries == {<<i, IF LitAt(s, pos, atom.alts[i], ic)
                                 THEN MatchEnd(pat, k + 1, s, pos + Len(atom.alts[i]), ic)
                                 ELSE -1>> : i \in 1..Len(atom.alts)}
                  good == {t \in tries : t[2] # -1}
              IN  IF good = {} THEN -1
                  ELSE (CHOOSE t \in good : \A u \in good : t[1] <= u[1])[2]
         ELSE LET cap == IF atom.max = Unbounded THEN Len(s) ELSE atom.max
                  run == ClassRun(atom, s, pos, ic, cap)
                  tries == {<<n, MatchEnd(pat, k + 1, s, pos + n, ic)>> : n \in atom.min..run}
                  good == {t \in tries : t[2] # -1}
              IN  IF good = {} THEN -1
                  ELSE IF atom.lazy
                       THEN (CHOOSE t \in good : \A u \in good : t[1] <= u[1])[2]
                       ELSE (CHOOSE t \in good : \A u \in good : t[1] >= u[1])[2]

\* [m.group(0) for m in re.finditer(pat, s)], scanning from offset start
RECURSIVE FindAll(_, _, _, _)
FindAll(pat, s, start, ic) ==
    IF start > Len(s) THEN <<>>
    ELSE LET end == MatchEnd(pat, 1, s, start, ic)
         IN  IF end = -1 THEN FindAll(pat, s, start + 1, ic)
             ELSE <<SubSeq(s, start + 1, end)>>
                  \o FindAll(pat, s, IF end > start THEN end ELSE start + 1, ic)

(***************************************************************************)
(* detect_sensitive_data (utils.py)                                        *)
(***************************************************************************)
KeyChars == Alnum \cup {"-", "_"}
Assigners == Quotes \cup Whitespace \cup {":", "="}

\* (?i)<word>['"\s:=]+[a-zA-Z0-9\-_]{20,}
GenericPattern(word) == <<Lit(word), Cls(Assigners, 1, Unbounded), Cls(KeyChars, 20, Unbounded)>>

SENSITIVE_PATTERNS ==
    <<[name |-> "AWS Access Key", ic |-> TRUE,
       pat |-> <<Lit(<<"A","K","I","A">>), Cls(Digits \cup UpperSet, 16, 16)>>],
      [name |-> "AWS Secret Key", ic |-> TRUE,
       pat |-> <<Lit(<<"a","w","s">>), Lazy(NotCls({NL}, 0, 20)), Cls(Quotes, 1, 1),
                 Cls(Alnum \cup {"/", "+"}, 40, 40), Cls(Quotes, 1, 1)>>],
      [name |-> "Generic API Key", ic |-> TRUE,
       pat |-> <<Lit(<<"a","p","i">>), Cls({"_", "-"}, 0, 1), Lit(<<"k","e","y">>),
                 Cls(Assigners, 1, Unbounded), Cls(KeyChars, 20, Unbounded)>>],
      [name |-> "Generic Secret", ic |-> TRUE,
       pat |-> GenericPattern(<<"s","e","c","r","e","t">>)],
      [name |-> "Generic Token", ic |-> TRUE,
       pat |-> GenericPattern(<<"t","o","k","e","n">>)],
      [name |-> "Generic Password", ic |-> TRUE,
       pat |-> <<Lit(<<"p","a","s","s","w","o","r","d">>), Cls(Assigners, 1, Unbounded),
                 Cls(KeyChars \cup {"!", "@", "#", "$", "%", "^", "&", "*"}, 8, Unbounded)>>],
      [name |-> "GitHub Token", ic |-> TRUE,
       pat |-> <<Lit(<<"g","h">>), Cls({"p", "o", "u", "s", "r"}, 1, 1), Lit(<<"_">>),
                 Cls(Alnum, 36, Unbounded)>>],
      [name |-> "Generic Bearer Token", ic |-> TRUE,
       pat |-> <<Lit(<<"b","e","a","r","e","r">>), Cls(Whitespace, 1, Unbounded),
                 Cls(KeyChars \cup {".", "="}, 1, Unbounded)>>],
      [name |-> "Private Key", ic |-> FALSE,
       pat |-> <<Lit(<<"-","-","-","-","-","B","E","G","I","N"," ">>),
                 Alt(<<<<"R","S","A"," ">>, <<"E","C"," ">>, <<"O","P","E","N","S","S","H"," ">>, <<>>>>),
                 Lit(<<"P","R","I","V","A","T","E"," ","K","E","Y","-","-","-","-","-">>)>>],
      [name |-> "Google API Key", ic |-> FALSE,
       pat |-> <<Lit(<<"A","I","z","a">>), Cls(KeyChars, 35, 35)>>],
      [name |-> "Slack Token", ic |-> FALSE,
       pat |-> <<Lit(<<"x","o","x">>), Cls({"b", "a", "p", "r", "s"}, 1, 1), Lit(<<"-">>),
                 Cls(Digits, 10, 12), Lit(<<"-">>), Cls(Digits, 10, 12), Lit(<<"-">>),
                 Cls(Alnum, 24, Unbounded)>>],
      [name |-> "Stripe Key", ic |-> TRUE,
       pat |-> <<Alt(<<<<"s","k">>, <<"p","k">>>>), Lit(<<"_">>),
                 Alt(<<<<"l","i","v","e">>, <<"t","e","s","t">>>>), Lit(<<"_">>),
                 Cls(Alnum, 24, Unbounded)>>],
      [name |-> "JWT Token", ic |-> FALSE,
       pat |-> <<Lit(<<"e","y","J">>), Cls(KeyChars, 1, Unbounded), Lit(<<".">>),
                 Lit(<<"e","y","J">>), Cls(KeyChars, 1, Unbounded), Lit(<<".">>),
                 Cls(KeyChars, 1, Unbounded)>>],
      [name |-> "Database Connection String", ic |-> TRUE,
       pat |-> <<Alt(<<<<"p","o","s","t","g","r","e","s">>, <<"p","o","s","t","g","r","e","s","q","l">>, <<"m","y","s","q","l">>, <<"m","o","n","g","o","d","b">>, <<"r","e","d","i","s">>>>),
                 Lit(<<":","/","/">>), NotCls(Whitespace, 1, Unbounded)>>]>>

Ellipsis == <<".", ".", ".">>
MaskLongerThan == 20
MaskHead == 10
MaskTail == 5
MaskShortHead == 5

\* Mask with the short form keeping the first 50 characters
MaskKeepingShort(matched_text) ==
    IF Len(matched_text) > MaskLongerThan
    THEN SliceTo(matched_text, MaskHead) \o Ellipsis \o SliceLast(matched_text, MaskTail)
    ELSE SliceTo(matched_text, 50) \o Ellipsis

\* the masked form of a match, for display
Mask(matched_text) ==
    IF Len(matched_text) > MaskLongerThan
    THEN SliceTo(matched_text, MaskHead) \o Ellipsis \o SliceLast(matched_text, MaskTail)
    ELSE SliceTo(matched_text, MaskShortHead) \o Ellipsis

\* concatenation of a sequence of sequences
RECURSIVE Flatten(_)
Flatten(xss) == IF xss = <<>> THEN <<>> ELSE Head(xss) \o Flatten(Tail(xss))

\* the matches detect_sensitive_data visits, in its order: line by line,
\* pattern by pattern, match by match
SensitiveMatches(diff_content) ==
    LET lines == Split(diff_content, NL)
        OfPattern(line_num, p) ==
            LET ms == FindAll(SENSITIVE_PATTERNS[p].pat, lines[line_num], 0,
                              SENSITIVE_PATTERNS[p].ic)
            IN  [j \in 1..Len(ms) |->
                    [pattern_name |-> SENSITIVE_PATTERNS[p].name,
                     matched_text |-> ms[j],
                     line_num |-> line_num]]
        OfLine(line_num) ==
            IF ~StartsWith(lines[line_num], Plus) \/ StartsWith(lines[line_num], Plus3)
            THEN <<>>
            ELSE Flatten([p \in 1..Len(SENSITIVE_PATTERNS) |-> OfPattern(line_num, p)])
    IN  Flatten([n \in 1..Len(lines) |-> OfLine(n)])

\* findings.append((pattern_name, masked, line_num)) for the matches ms
MaskedFindings(ms) ==
    [i \in 1..Len(ms) |->
        [pattern_name |-> ms[i].pattern_name,
         masked |-> Mask(ms[i].matched_text),
         line_num |-> ms[i].line_num]]

DetectSensitiveData(diff_content) == MaskedFindings(SensitiveMatches(diff_content))

(***************************************************************************)
(* detect_scope_from_diff (utils.py)                                       *)
(***************************************************************************)
\* the character U+0060 (a grave accent), which a string of this language
\* cannot hold: one element of a text as every other character is
Backtick == "U+0060"

\* the printable ASCII characters in code-point order, from " " (32) on
Ascii ==
    <<" ","!","\"","#","$","%","&","'","(",")","*","+",",","-",".","/","0","1","2","3","4","5","6","7","8","9",":",";","<","=",">","?","@",
     "A","B","C","D","E","F","G","H","I","J","K","L","M","N","O","P","Q","R","S","T","U","V","W","X","Y","Z","[","\\","]","^","_",Backtick,
     "a","b","c","d","e","f","g","h","i","j","k","l","m","n","o","p","q","r","s","t","u","v","w","x","y","z","{","|","}","~">>

\* ord(c); the control characters a text of the model can hold come first
Ord(c) ==
    IF c = "\t" THEN 9 ELSE IF c = "\n" THEN 10 ELSE IF c = "\f" THEN 12
    ELSE IF c = "\r" THEN 13
    ELSE 31 + (CHOOSE i \in 1..Len(Ascii) : Ascii[i] = c)

\* a < b for two strings
RECURSIVE StrLess(_, _)
StrLess(a, b) ==
    IF b = <<>> THEN FALSE
    ELSE IF a = <<>> THEN TRUE
    ELSE IF Head(a) = Head(b) THEN StrLess(Tail(a), Tail(b))
    ELSE Ord(Head(a)) < Ord(Head(b))

\* the paths of changed_files: what follows ' b/' in each header that has it
ChangedFilesByMarker(diff_content) ==
    LET lines == Split(diff_content, NL)
        HasPath(line) == IsHeader(line) /\ Find(line, BMarker) # -1
        hs == SelectSeq(lines, HasPath)
    IN  [i \in 1..Len(hs) |-> SliceFrom(hs[i], Find(hs[i], BMarker) + 3)]

GenericDirs == {S_src, S_lib, <<"a","p","p">>}

\* the add_scope calls made for one path, in order
ScopeTags(filepath) ==
    LET parts == Split(filepath, "/")
        low == Lower(filepath)
        Tag(cond, name) == IF cond THEN <<name>> ELSE <<>>
    IN  (IF Len(parts) > 1
         THEN IF parts[1] \in GenericDirs THEN <<parts[2]>> ELSE <<parts[1]>>
         ELSE <<>>)
        \o Tag(Contains(low, S_test), <<"t","e","s","t","s">>)
        \o Tag(Contains(low, S_doc) \/ EndsWith(filepath, <<".","m","d">>), S_docs)
        \o Tag(Contains(low, S_config)
               \/ EndsWithAny(filepath, {<<".","y","m","l">>, <<".","y","a","m","l">>, <<".","t","o","m","l">>, <<".","j","s","o","n">>, <<".","i","n","i">>}),
               S_config)
        \o Tag(EndsWithAny(filepath, {<<".","c","s","s">>, <<".","s","c","s","s">>, <<".","s","a","s","s">>, <<".","l","e","s","s">>}),
               <<"s","t","y","l","e","s">>)
        \o Tag(Contains(low, <<"a","p","i">>), <<"a","p","i">>)
        \o Tag(Contains(low, <<"c","l","i">>), <<"c","l","i">>)
        \o Tag(Contains(low, <<"u","i">>) \/ Contains(low, <<"c","o","m","p","o","n","e","n","t">>), <<"u","i">>)
        \o Tag(Contains(low, <<"d","b">>) \/ Contains(low, <<"d","a","t","a","b","a","s","e">>)
               \/ Contains(low, <<"m","i","g","r","a","t","i","o","n">>), <<"d","a","t","a","b","a","s","e">>)
        \o Tag(Contains(low, <<"a","u","t","h">>), <<"a","u","t","h">>)
        \o Tag(Contains(low, <<"u","t","i","l">>) \/ Contains(low, <<"h","e","l","p","e","r">>), <<"u","t","i","l","s">>)

\* scope_counts after the generic scopes are popped: scope -> tally
ScopeCounts(changed_files) ==
    LET tags == Flatten([i \in 1..Len(changed_files) |-> ScopeTags(changed_files[i])])
        names == {tags[i] : i \in 1..Len(tags)} \ (GenericDirs \cup {<<>>})
    IN  [name \in names |-> Cardinality({i \in 1..Len(tags) : tags[i] = name})]

\* the sort key without the tally: scopes in name order only
ScopeBeforeByName(counts, a, b) == StrLess(a, b)

\* the sort key (-count, name): does scope a come before scope b
ScopeBefore(counts, a, b) ==
    \/ counts[a] > counts[b]
    \/ counts[a] = counts[b] /\ StrLess(a, b)

\* sorted(scope_counts.items(), key=lambda x: (-x[1], x[0])), the names
RECURSIVE SortedScopes(_, _)
SortedScopes(counts, names) ==
    IF names = {} THEN <<>>
    ELSE LET first == CHOOSE a \in names : \A b \in names \ {a} : ScopeBefore(counts, a, b)
         IN  <<first>> \o SortedScopes(counts, names \ {first})

MaxScopes == 5

DetectScopeFromDiff(diff_content) ==
    LET changed_files == ChangedFilesByMarker(diff_content)
        counts == ScopeCounts(changed_files)
    IN  IF changed_files = <<>> THEN <<>>
        ELSE SliceTo(SortedScopes(counts, DOMAIN counts), MaxScopes)

(***************************************************************************)
(* detect_breaking_changes (utils.py)                                      *)
(***************************************************************************)
\* \w, for ASCII
WordChars == Alnum \cup {"_"}

Spaces0 == Cls(Whitespace, 0, Unbounded)
Spaces1 == Cls(Whitespace, 1, Unbounded)
Word1 == Cls(WordChars, 1, Unbounded)
\* .* : any run of characters other than a newline
AnyRun == NotCls({"\n"}, 0, Unbounded)
\* ^\- : every pattern of the catalog is anchored at the start of the line
RemovedLead == Lit(Minus)

\* breaking_patterns, in the catalog's order; each is anchored by ^
breaking_patterns ==
    <<
       [pat |-> <<RemovedLead, Spaces0,
                  Lit(<<"d","e","f">>),
                  Spaces1,
                  Word1,
                  Spaces0,
                  Lit(<<"(">>),
                  NotCls({")"}, 0, Unbounded),
                  Lit(<<")">>)>>,
        reason |-> <<"F","u","n","c","t","i","o","n"," ","s","i","g","n","a","t","u","r","e"," ","c","h","a","n","g",
                  "e","d">>],
       [pat |-> <<RemovedLead, Spaces0,
                  Lit(<<"p","u","b","l","i","c">>),
                  Spaces1,
                  Word1,
                  Spaces1,
                  Word1,
                  Spaces0,
                  Lit(<<"(">>)>>,
        reason |-> <<"P","u","b","l","i","c"," ","m","e","t","h","o","d"," ","s","i","g","n","a","t","u","r","e"," ",
                  "c","h","a","n","g","e","d">>],
       [pat |-> <<RemovedLead, Spaces0,
                  Lit(<<"e","x","p","o","r","t">>),
                  Spaces1,
                  Alt(<<<<"f","u","n","c","t","i","o","n">>, <<"c","l","a","s","s">>, <<"i","n","t","e","r","f","a","c","e">>, <<"t","y","p","e">>>>),
                  Spaces1,
                  Word1>>,
        reason |-> <<"E","x","p","o","r","t","e","d"," ","A","P","I"," ","c","h","a","n","g","e","d">>],
       [pat |-> <<RemovedLead, Spaces0,
                  Lit(<<"@">>),
                  Alt(<<<<"a","p","p">>, <<"r","o","u","t","e","r">>>>),
                  Lit(<<".">>),
                  Alt(<<<<"g","e","t">>, <<"p","o","s","t">>, <<"p","u","t">>, <<"d","e","l","e","t","e">>, <<"p","a","t","c","h">>>>),
                  Lit(<<"(">>),
                  Cls(Quotes, 1, 1),
                  NotCls(Quotes, 1, Unbounded),
                  Cls(Quotes, 1, 1),
                  Lit(<<")">>)>>,
        reason |-> <<"A","P","I"," ","e","n","d","p","o","i","n","t"," ","r","e","m","o","v","e","d","/","c","h","a",
                  "n","g","e","d">>],
       [pat |-> <<RemovedLead, Spaces0,
                  Alt(<<<<"G","E","T">>, <<"P","O","S","T">>, <<"P","U","T">>, <<"D","E","L","E","T","E">>, <<"P","A","T","C","H">>>>),
                  Spaces1,
                  Lit(<<"/">>)>>,
        reason |-> <<"H","T","T","P"," ","r","o","u","t","e"," ","c","h","a","n","g","e","d">>],
       [pat |-> <<RemovedLead, Spaces0,
                  Alt(<<<<"C","R","E","A","T","E">>, <<"A","L","T","E","R">>, <<"D","R","O","P">>>>),
                  Spaces1,
                  Alt(<<<<"T","A","B","L","E">>, <<"C","O","L","U","M","N">>>>)>>,
        reason |-> <<"D","a","t","a","b","a","s","e"," ","s","c","h","e","m","a"," ","c","h","a","n","g","e">>],
       [pat |-> <<RemovedLead, Spaces0,
                  Lit(<<"C","o","l","u","m","n","(">>)>>,
        reason |-> <<"D","a","t","a","b","a","s","e"," ","c","o","l","u","m","n"," ","d","e","f","i","n","i","t","i",
                  "o","n"," ","c","h","a","n","g","e","d">>],
       [pat |-> <<RemovedLead, Spaces0,
                  Alt(<<<<"r","e","q","u","i","r","e","d">>, <<"m","a","n","d","a","t","o","r","y">>>>)>>,
        reason |-> <<"R","e","q","u","i","r","e","d"," ","f","i","e","l","d"," ","r","e","m","o","v","e","d">>],
       [pat |-> <<RemovedLead, Spaces0,
                  Lit(<<"c","l","a","s","s">>),
                  Spaces1,
                  Word1,
                  AnyRun,
                  Lit(<<"(">>),
                  AnyRun,
                  Lit(<<"C","o","n","f","i","g">>)>>,
        reason |-> <<"C","o","n","f","i","g","u","r","a","t","i","o","n"," ","c","l","a","s","s"," ","c","h","a","n",
                  "g","e","d">>],
       [pat |-> <<RemovedLead, Spaces0,
                  Lit(<<"i","n","t","e","r","f","a","c","e">>),
                  Spaces1,
                  Word1>>,
        reason |-> <<"I","n","t","e","r","f","a","c","e"," ","d","e","f","i","n","i","t","i","o","n"," ","c","h","a",
                  "n","g","e","d">>],
       [pat |-> <<RemovedLead, Spaces0,
                  Lit(<<"t","y","p","e">>),
                  Spaces1,
                  Word1,
                  Spaces0,
                  Lit(<<"=">>)>>,
        reason |-> <<"T","y","p","e"," ","d","e","f","i","n","i","t","i","o","n"," ","c","h","a","n","g","e","d">>],
       [pat |-> <<RemovedLead, Spaces0,
                  Lit(<<"c","l","a","s","s">>),
                  Spaces1,
                  Word1>>,
        reason |-> <<"C","l","a","s","s"," ","d","e","f","i","n","i","t","i","o","n"," ","c","h","a","n","g","e","d">>],
       [pat |-> <<RemovedLead, Spaces0,
                  Lit(<<"\"">>),
                  NotCls({"\""}, 1, Unbounded),
                  Lit(<<"\"",":">>),
                  Spaces0,
                  Lit(<<"\"">>),
                  Cls({"^"}, 0, 1),
                  Cls(Digits, 1, Unbounded),
                  Lit(<<".">>)>>,
        reason |-> <<"D","e","p","e","n","d","e","n","c","y"," ","v","e","r","s","i","o","n"," ","c","h","a","n","g",
                  "e","d">>],
       [pat |-> <<RemovedLead, Spaces0,
                  Alt(<<<<"e","x","p","o","r","t">>, <<"p","u","b","l","i","c">>>>),
                  Cls(Whitespace, 1, 1)>>,
        reason |-> <<"P","u","b","l","i","c"," ","A","P","I"," ","e","l","e","m","e","n","t"," ","r","e","m","o","v",
                  "e","d">>]
    >>

\* re.search(pattern, line) for a pattern that starts with ^ (no MULTILINE):
\* the match can only start at offset 0
SearchAnchored(pat, line) == MatchEnd(pat, 1, line, 0, FALSE) # -1

\* str.strip(): whitespace removed at both ends
RECURSIVE LStrip(_)
LStrip(str) ==
    IF str # <<>> /\ Head(str) \in Whitespace THEN LStrip(Tail(str)) ELSE str

RECURSIVE RStrip(_)
RStrip(str) ==
    IF str # <<>> /\ str[Len(str)] \in Whitespace
    THEN RStrip(SubSeq(str, 1, Len(str) - 1)) ELSE str

Strip(str) == LStrip(RStrip(str))

DetailMax == 80
MaxBreaking == 10

\* the file named by the last header with at least four parts before line i:
\* parts[3][2:], or None if no such header came
BreakingFileAt(lines, i) ==
    LET Names(line) == IsHeader(line) /\ Len(Split(line, " ")) >= 4
        hs == {j \in 1..i : Names(lines[j])}
    IN  IF hs = {} THEN <<"N","o","n","e">>   \* str(None)
        ELSE LET j == CHOOSE k \in hs : \A l \in hs : l <= k
             IN  SliceFrom(Split(lines[j], " ")[4], 2)

\* the reason of the last pattern of the catalog the line matches, or <<>>
LastBreakingReason(line) ==
    LET hits == {k \in 1..Len(breaking_patterns) :
                    SearchAnchored(breaking_patterns[k].pat, line)}
    IN  IF hits = {} THEN <<>>
        ELSE breaking_patterns[CHOOSE k \in hits : \A l \in hits : k >= l].reason

\* the reason of the first pattern of the catalog the line matches, or <<>>
FirstBreakingReason(line) ==
    LET hits == {k \in 1..Len(breaking_patterns) :
                    SearchAnchored(breaking_patterns[k].pat, line)}
    IN  IF hits = {} THEN <<>>
        ELSE breaking_patterns[CHOOSE k \in hits : \A l \in hits : k <= l].reason

DetectBreakingChanges(diff_content) ==
    LET lines == Split(diff_content, NL)
        removed == SelectSeq([i \in 1..Len(lines) |-> i],
                             LAMBDA i : /\ IsDeletion(lines[i])
                                        /\ FirstBreakingReason(lines[i]) # <<>>)
        found == [n \in 1..Len(removed) |->
                    LET i == removed[n] IN
                    [reason |-> FirstBreakingReason(lines[i]),
                     detail |-> BreakingFileAt(lines, i) \o <<":", " ">>
                                \o SliceTo(Strip(SliceFrom(lines[i], 1)), DetailMax)]]
    IN  SliceTo(found, MaxBreaking)

(***************************************************************************)
(* PromptBuilder (templates.py)                                            *)
(*                                                                         *)
(* An Optional value is a sequence of no element (None) or of one element. *)
(* A dict is the sequence of its items, in insertion order.                *)
(***************************************************************************)
NoneValue == <<>>
Some(v) == <<v>>
\* the truth value of an Optional[str], and of a list
TruthyStr(opt) == opt # NoneValue /\ opt[1] # <<>>

DigitChars == <<"0","1","2","3","4","5","6","7","8","9">>
\* str(n) for an integer n >= 0
RECURSIVE Decimal(_)
Decimal(n) ==
    IF n < 10 THEN <<DigitChars[n + 1]>>
    ELSE Decimal(n \div 10) \o <<DigitChars[(n % 10) + 1]>>

\* pathlib, for normalised paths without symbolic links
S_dot == <<".">>
IsAbsolute(path) == path # <<>> /\ Head(path) = "/"
\* Path(parent) / child
JoinPath(parent, child) ==
    IF IsAbsolute(child) THEN child
    ELSE IF parent = S_dot THEN child
    ELSE parent \o <<"/">> \o child
\* path.resolve() in a process whose working directory is wd
Resolve(path, wd) ==
    IF IsAbsolute(path) THEN path
    ELSE IF path = S_dot THEN wd
    ELSE wd \o <<"/">> \o path

\* a file system maps absolute paths to [kind |-> "dir"], to
\* [kind |-> "file", text |-> ...] or to [kind |-> "denied"], a file that
\* cannot be opened
PathExists(files, path, wd) == Resolve(path, wd) \in DOMAIN files
PathIsFile(files, path, wd) ==
    /\ PathExists(files, path, wd)
    /\ files[Resolve(path, wd)].kind # "dir"

\* _get_system_prompt
SystemPrompt ==
    <<"Y","o","u"," ","a","r","e"," ","a","n"," ","e","x","p","e","r","t"," ","s","o","f","t","w","a",
      "r","e"," ","e","n","g","i","n","e","e","r"," ","s","p","e","c","i","a","l","i","z","i","n","g",
      " ","i","n"," ","w","r","i","t","i","n","g"," ","c","l","e","a","r",","," ","m","e","a","n","i",
      "n","g","f","u","l"," ","g","i","t"," ","c","o","m","m","i","t"," ","m","e","s","s","a","g","e",
      "s","."," ","\n","A","n","a","l","y","z","e"," ","t","h","e"," ","p","r","o","v","i","d","e",
      "d"," ","g","i","t"," ","d","i","f","f"," ","a","n","d"," ","r","e","p","o","s","i","t","o","r",
      "y"," ","c","o","n","t","e","x","t"," ","t","o"," ","g","e","n","e","r","a","t","e"," ","a"," ",
      "c","o","m","m","i","t"," ","m","e","s","s","a","g","e"," ","t","h","a","t"," ","a","c","c","u",
      "r","a","t","e","l","y"," ","r","e","f","l","e","c","t","s"," ","\n","t","h","e"," ","c","h",
      "a","n","g","e","s"," ","a","n","d"," ","f","o","l","l","o","w","s"," ","b","e","s","t"," ","p",
      "r","a","c","t","i","c","e","s",".">>

ContextFilesHeading == <<"-"," ","*","*","C","o","n","t","e","x","t"," ","F","i","l","e","s",":","*","*">>
\* the fence of a code block
Fence == <<Backtick, Backtick, Backtick>>

DefaultRecentCommits == 5

\* the repository path: the configured absolute path, else Path(".")
RepoPath(repo_config) ==
    IF repo_config # NoneValue /\ TruthyStr(repo_config[1].absolute_path)
    THEN repo_config[1].absolute_path[1]
    ELSE S_dot

\* the entry of one context file
ContextFileEntry(config, files, wd, repo_path, context_file) ==
    LET file_path == JoinPath(repo_path, context_file)
        max_size == config.max_context_file_size
        lead == <<" "," ","-"," ","*","*">> \o context_file \o <<":","*","*">>
    IN  IF PathExists(files, file_path, wd) /\ PathIsFile(files, file_path, wd)
        THEN IF files[Resolve(file_path, wd)].kind = "denied"
             THEN lead \o <<" ","(","E","r","r","o","r"," ","r","e","a","d","i","n","g"," ","f","i","l","e",":"," ","[","E","r","r","n","o"," ","1","3","]"," ","P","e","r","m","i","s","s","i","o","n"," ","d","e","n","i","e","d",":"," ">>
                       \o <<"'">> \o file_path \o <<"'", ")">>
             ELSE LET read == Strip(files[Resolve(file_path, wd)].text)
                      content ==
                          IF Len(read) > max_size
                          THEN SliceTo(read, max_size)
                               \o <<"\n","\n",".",".","."," ","(","t","r","u","n","c","a","t","e","d",","," ","f","i","l","e"," ","i","s"," ">>
                               \o Decimal(Len(read))
                               \o <<" ","c","h","a","r","s",","," ","s","h","o","w","i","n","g"," ","f","i","r","s","t"," ">>
                               \o Decimal(max_size) \o <<")">>
                          ELSE read
                  IN  lead \o <<"\n"," "," "," "," ">> \o Fence
                           \o <<"\n"," "," "," "," ">> \o content
                           \o <<"\n"," "," "," "," ">> \o Fence
        ELSE lead \o <<" ","(","F","i","l","e"," ","n","o","t"," ","f","o","u","n","d",")">>

\* _get_repository_context_section
GetRepositoryContextSection(config, files, wd, repo_context, repo_config) ==
    LET has_config == repo_config # NoneValue
        rc == repo_config[1]
        repo_path == RepoPath(repo_config)
        max_recent_commits ==
            IF config.max_recent_commits > 0 THEN config.max_recent_commits
            ELSE DefaultRecentCommits
        shown == SliceTo(repo_context.recent_commits[1], max_recent_commits)
        context_parts ==
            <<<<"*","*","R","e","p","o","s","i","t","o","r","y"," ","C","o","n","t","e","x","t",":","*","*">>,
              <<"-"," ","*","*","N","a","m","e",":","*","*"," ">> \o repo_context.name,
              <<"-"," ","*","*","P","a","t","h",":","*","*"," ">> \o Resolve(repo_path, wd)>>
            \o (IF has_config /\ rc.context_files # <<>> /\ PathExists(files, repo_path, wd)
                THEN <<ContextFilesHeading>>
                     \o [i \in 1..Len(rc.context_files) |->
                            ContextFileEntry(config, files, wd, repo_path, rc.context_files[i])]
                ELSE <<>>)
            \o (IF TruthyStr(repo_context.description)
                THEN <<<<"-"," ","*","*","D","e","s","c","r","i","p","t","i","o","n",":","*","*"," ">> \o repo_context.description[1]>>
                ELSE <<>>)
            \o (IF repo_context.tech_stack # NoneValue
                THEN <<<<"-"," ","*","*","T","e","c","h"," ","S","t","a","c","k",":","*","*"," ">>
                       \o Join(repo_context.tech_stack[1], <<",", " ">>)>>
                ELSE <<>>)
            \o (IF repo_context.recent_commits # NoneValue
                THEN <<<<"-"," ","*","*","R","e","c","e","n","t"," ","C","o","m","m","i","t","s"," ","(","u","p"," ","t","o"," ">>
                       \o Decimal(max_recent_commits) \o <<")",":","*","*">>>>
                     \o [i \in 1..Len(shown) |-> <<" "," ","-"," ">> \o shown[i]]
                ELSE <<>>)
            \o (IF has_config /\ rc.commit_conventions # <<>>
                THEN <<<<"-"," ","*","*","P","r","o","j","e","c","t"," ","C","o","n","v","e","n","t","i","o","n","s",":","*","*">>>>
                     \o [i \in 1..Len(rc.commit_conventions) |->
                            <<" "," ","-"," ">> \o rc.commit_conventions[i].key
                            \o <<":", " ">> \o rc.commit_conventions[i].value]
                ELSE <<>>)
    IN  Join(context_parts, <<NL>>)

\* the character U+26A1 (high voltage sign) of the warning's heading
HighVoltage == "U+26A1"

MaxListedBreaking == 5

\* _get_scope_suggestions_section
GetScopeSuggestionsSection(suggested_scopes) ==
    IF suggested_scopes = <<>> THEN <<>>
    ELSE <<"*","*","S","u","g","g","e","s","t","e","d"," ","S","c","o","p","e","s"," ","(","b","a","s","e","d"," ","o","n"," ","c","h","a","n","g","e","d"," ","f","i","l","e","s",")",":","*","*","\n">>
         \o Join([i \in 1..Len(suggested_scopes) |->
                     <<Backtick>> \o suggested_scopes[i] \o <<Backtick>>], <<",", " ">>)
         \o <<"\n","\n","C","o","n","s","i","d","e","r"," ","u","s","i","n","g"," ","o","n","e"," ","o","f",
           " ","t","h","e","s","e"," ","s","c","o","p","e","s"," ","i","f"," ","a","p","p","r","o","p","r",
           "i","a","t","e"," ","f","o","r"," ","c","o","n","v","e","n","t","i","o","n","a","l"," ","c","o",
           "m","m","i","t","s",".">>

\* _get_breaking_changes_section
GetBreakingChangesSection(breaking_changes) ==
    LET listed == SliceTo(breaking_changes, MaxListedBreaking) IN
    IF breaking_changes = <<>> THEN <<>>
    ELSE <<"*","*">> \o <<HighVoltage>> \o <<" ","B","R","E","A","K","I","N","G"," ","C","H","A","N","G","E","S"," ","D","E","T","E","C","T","E","D",":","*","*","\n">>
         \o Join([i \in 1..Len(listed) |->
                     <<" "," ","-"," ">> \o listed[i].reason \o <<":", " ">> \o listed[i].detail],
                 <<NL>>)
         \o <<"\n","\n","I","M","P","O","R","T","A","N","T",":"," ","I","f"," ","t","h","e","s","e"," ","a",
           "r","e"," ","t","r","u","l","y"," ","b","r","e","a","k","i","n","g"," ","c","h","a","n","g","e",
           "s",","," ","a","d","d"," ","a"," ","'","B","R","E","A","K","I","N","G"," ","C","H","A","N","G",
           "E",":","'"," ","f","o","o","t","e","r"," ","t","o"," ","y","o","u","r"," ","c","o","m","m","i",
           "t"," ","m","e","s","s","a","g","e"," ","e","x","p","l","a","i","n","i","n","g"," ","t","h","e",
           " ","i","m","p","a","c","t"," ","a","n","d"," ","m","i","g","r","a","t","i","o","n"," ","p","a",
           "t","h","."," ","T","h","i","s"," ","i","s"," ","c","r","i","t","i","c","a","l"," ","f","o","r",
           " ","s","e","m","a","n","t","i","c"," ","v","e","r","s","i","o","n","i","n","g"," ","(","t","r",
           "i","g","g","e","r","s"," ","m","a","j","o","r"," ","v","e","r","s","i","o","n"," ","b","u","m",
           "p",")",".">>

\* _get_diff_section
GetDiffSection(diff_content) ==
    <<"*","*","G","i","t"," ","D","i","f","f",":","*","*","\n">> \o Fence \o <<"d","i","f","f","\n">>
    \o diff_content \o <<NL>> \o Fence

\* _get_requirements_section
GetRequirementsSection(config) ==
    LET requirements ==
            <<<<"*","*","R","e","q","u","i","r","e","m","e","n","t","s",":","*","*">>,
              <<"1","."," ","A","n","a","l","y","z","e"," ","t","h","e"," ","c","h","a","n","g","e","s"," ","t",
                "o"," ","u","n","d","e","r","s","t","a","n","d"," ","t","h","e","i","r"," ","p","u","r","p","o",
                "s","e"," ","a","n","d"," ","s","c","o","p","e">>,
              <<"2","."," ","U","s","e"," ","c","o","n","v","e","n","t","i","o","n","a","l"," ","c","o","m","m",
                "i","t"," ","f","o","r","m","a","t"," ","i","f"," ","e","n","a","b","l","e","d">>,
              <<"3","."," ","K","e","e","p"," ","t","h","e"," ","s","u","b","j","e","c","t"," ","l","i","n","e",
                " ","c","o","n","c","i","s","e"," ","a","n","d"," ","d","e","s","c","r","i","p","t","i","v","e">>>>
            \o (IF config.conventional_commits
                THEN <<<<"4","."," ","U","s","e"," ","a","p","p","r","o","p","r","i","a","t","e"," ","c","o","n","v","e",
                        "n","t","i","o","n","a","l"," ","c","o","m","m","i","t"," ","p","r","e","f","i","x","e","s",":">>>>
                     \o (IF config.custom_prefixes # <<>>
                         THEN <<<<" "," ","C","u","s","t","o","m"," ","c","o","m","m","i","t"," ","p","r","e","f","i","x","e","s",":">>>>
                              \o [i \in 1..Len(config.custom_prefixes) |->
                                     <<" "," "," ","-"," ",Backtick>> \o config.custom_prefixes[i].key
                                     \o <<":",Backtick," ">> \o config.custom_prefixes[i].value]
                         ELSE <<>>)
                ELSE <<>>)
            \o (IF config.max_subject_length # 0
                THEN <<<<"5","."," ","K","e","e","p"," ","s","u","b","j","e","c","t"," ","l","i","n","e"," ","u","n","d","e","r"," ">>
                       \o Decimal(config.max_subject_length) \o <<" ","c","h","a","r","a","c","t","e","r","s">>>>
                ELSE <<>>)
            \o (IF config.include_body
                THEN <<<<"6","."," ","I","n","c","l","u","d","e"," ","a"," ","d","e","t","a","i","l","e","d"," ","b","o",
                        "d","y"," ","e","x","p","l","a","i","n","i","n","g"," ","t","h","e"," ","c","h","a","n","g","e",
                        "s">>>>
                ELSE <<>>)
            \o (IF config.include_reasoning
                THEN <<<<"7","."," ","I","n","c","l","u","d","e"," ","r","e","a","s","o","n","i","n","g"," ","f","o","r",
                        " ","t","h","e"," ","c","h","a","n","g","e","s"," ","w","h","e","n"," ","h","e","l","p","f","u",
                        "l">>>>
                ELSE <<>>)
    IN  Join(requirements, <<NL>>)

\* _get_examples_section with the example blocks kept on the builder: the
\* blocks of an earlier call that returned are emitted again
GetExamplesSectionAccumulating(config) ==
    LET blocks == [i \in 1..Len(config.example_formats) |->
                      Fence \o <<NL>> \o config.example_formats[i] \o <<NL>> \o Fence]
        kept == IF call.op = "build_prompt" /\ call.outcome.raised = "" THEN blocks ELSE <<>>
    IN  Join(<<<<"*","*","E","x","a","m","p","l","e"," ","F","o","r","m","a","t","s"," ","o","f"," ","C","o","m",
             "m","i","t"," ","M","e","s","s","a","g","e","s"," ","(","e","a","c","h"," ","s","e","p","a","r",
             "a","t","e","d"," ","i","n"," ","i","t","s"," ","o","w","n"," ","c","o","d","e"," ","b","l","o",
             "c","k",")",":","*","*">>>>
             \o kept \o blocks,
             <<NL>>)

\* _get_examples_section
GetExamplesSection(config) ==
    Join(<<<<"*","*","E","x","a","m","p","l","e"," ","F","o","r","m","a","t","s"," ","o","f"," ","C","o","m",
             "m","i","t"," ","M","e","s","s","a","g","e","s"," ","(","e","a","c","h"," ","s","e","p","a","r",
             "a","t","e","d"," ","i","n"," ","i","t","s"," ","o","w","n"," ","c","o","d","e"," ","b","l","o",
             "c","k",")",":","*","*">>>>
         \o [i \in 1..Len(config.example_formats) |->
                Fence \o <<NL>> \o config.example_formats[i] \o <<NL>> \o Fence],
         <<NL>>)

ImportantNote ==
    <<"*","I","M","P","O","R","T","A","N","T",":"," ","Y","o","u","r"," ","o","u","t","p","u","t"," ",
      "s","h","o","u","l","d"," ","o","n","l","y"," ","c","o","n","t","a","i","n"," ","t","h","e"," ",
      "c","o","m","m","i","t"," ","m","e","s","s","a","g","e",","," ","n","o","t","h","i","n","g"," ",
      "e","l","s","e",".","*">>

\* build_prompt, once its parameters are bound
BuildPrompt(config, files, wd, diff_content, repo_context, repo_config, additional_context) ==
    LET prompt_parts ==
            <<SystemPrompt,
              GetRepositoryContextSection(config, files, wd, repo_context, repo_config),
              GetScopeSuggestionsSection(DetectScopeFromDiff(diff_content)),
              GetBreakingChangesSection(DetectBreakingChanges(diff_content)),
              GetDiffSection(diff_content),
              GetRequirementsSection(config),
              GetExamplesSection(config)>>
            \o (IF TruthyStr(additional_context)
                THEN <<<<"\n","*","*","A","d","d","i","t","i","o","n","a","l"," ","C","o","n","t","e","x","t",":","*","*","\n">> \o additional_context[1]>>
                ELSE <<>>)
            \o <<ImportantNote>>
    IN  Join(SelectSeq(prompt_parts, LAMBDA part : part # <<>>), <<NL, NL>>)

\* the parameters of build_prompt after self; the first two have no default
Parameters == {"diff_content", "repo_context", "repo_config", "additional_context"}
Required == {"diff_content", "repo_context"}

\* the call builder.build_prompt(**kwargs): the keywords are bound to the
\* parameters first, and a keyword that names no parameter, or a parameter
\* without default left unbound, raises TypeError before the body runs
CallBuildPrompt(config, files, wd, kwargs) ==
    LET Arg(name) == IF name \in DOMAIN kwargs THEN kwargs[name] ELSE NoneValue IN
    IF ~(DOMAIN kwargs \subseteq Parameters) \/ ~(Required \subseteq DOMAIN kwargs)
    THEN [raised |-> "TypeError", prompt |-> <<>>]
    ELSE [raised |-> "",
          prompt |-> BuildPrompt(config, files, wd, kwargs.diff_content, kwargs.repo_context,
                                 Arg("repo_config"), Arg("additional_context"))]

(***************************************************************************)
(* analyze_diff_impact (utils.py)                                          *)
(***************************************************************************)
\* changed_files: parts[3][2:] of every header with at least four parts
ChangedFilesByParts(diff_content) ==
    LET lines == Split(diff_content, NL)
        Names(line) == IsHeader(line) /\ Len(Split(line, " ")) >= 4
        hs == SelectSeq(lines, Names)
    IN  [i \in 1..Len(hs) |-> SliceFrom(Split(hs[i], " ")[4], 2)]

\* '.md' in f or 'doc' in f.lower()
LooksLikeDocs(f) == Contains(f, <<".","m","d">>) \/ Contains(Lower(f), S_doc)
\* 'test' in f.lower()
LooksLikeTest(f) == Contains(Lower(f), S_test)

\* the classification with the size tests first: docs and test are tried
\* after feature and removal
ChangeTypeSizeFirst(changed_files, additions, deletions, breaking_changes) ==
    IF additions > deletions * 2 THEN "feature"
    ELSE IF deletions > additions * 2 THEN "removal"
    ELSE IF \E i \in 1..Len(changed_files) : LooksLikeDocs(changed_files[i]) THEN "docs"
    ELSE IF \E i \in 1..Len(changed_files) : LooksLikeTest(changed_files[i]) THEN "test"
    ELSE IF breaking_changes # <<>> THEN "breaking"
    ELSE "refactor"

ChangeType(changed_files, additions, deletions, breaking_changes) ==
    IF \E i \in 1..Len(changed_files) : LooksLikeDocs(changed_files[i]) THEN "docs"
    ELSE IF \E i \in 1..Len(changed_files) : LooksLikeTest(changed_files[i]) THEN "test"
    ELSE IF additions > deletions * 2 THEN "feature"
    ELSE IF deletions > additions * 2 THEN "removal"
    ELSE IF breaking_changes # <<>> THEN "breaking"
    ELSE "refactor"

HighDeletions == 100
HighAdditions == 500
MediumDeletions == 50
MediumAdditions == 200

RiskLevel(additions, deletions, breaking_changes) ==
    IF breaking_changes # <<>> THEN "high"
    ELSE IF deletions > HighDeletions \/ additions > HighAdditions THEN "high"
    ELSE IF deletions > MediumDeletions \/ additions > MediumAdditions THEN "medium"
    ELSE "low"

\* the dict analyze_diff_impact returns, from what it computed
ImpactResult(breaking_changes, additions, deletions, changed_files, affected_areas) ==
    [breaking_changes |-> breaking_changes,
     risk_level |-> RiskLevel(additions, deletions, breaking_changes),
     affected_areas |-> affected_areas,
     change_type |-> ChangeType(changed_files, additions, deletions, breaking_changes),
     additions |-> additions,
     deletions |-> deletions,
     files_changed |-> Len(changed_files)]

AnalyzeDiffImpact(diff_content) ==
    ImpactResult(DetectBreakingChanges(diff_content),
                 ImpactCounts(diff_content).additions,
                 ImpactCounts(diff_content).deletions,
                 ChangedFilesByParts(diff_content),
                 DetectScopeFromDiff(diff_content))

(***************************************************************************)
(* check_sensitive_files (utils.py)                                        *)
(***************************************************************************)
\* the patterns that end in $: what the lower-cased name must end with
SensitiveEndings ==
    {<<".","e","n","v">>,
     <<"c","r","e","d","e","n","t","i","a","l","s",".","j","s","o","n">>,
     <<"s","e","c","r","e","t","s",".","y","m","l">>,
     <<"s","e","c","r","e","t","s",".","y","a","m","l">>,
     <<".","p","e","m">>,
     <<".","k","e","y">>,
     <<".","p","1","2">>,
     <<".","p","f","x">>,
     <<".","p","a","s","s","w","o","r","d">>,
     <<".","p","g","p","a","s","s">>,
     <<".","n","e","t","r","c">>}
\* the patterns without $: what the lower-cased name must contain
SensitiveInfixes ==
    {<<".","e","n","v",".">>, <<"i","d","_","r","s","a">>, <<"i","d","_","d","s","a">>}

\* re.search(pattern, filename, re.IGNORECASE) for some pattern of the list
IsSensitiveFile(filename) ==
    \/ \E e \in SensitiveEndings : EndsWith(Lower(filename), e)
    \/ \E c \in SensitiveInfixes : Contains(Lower(filename), c)

CheckSensitiveFiles(diff_content) ==
    SelectSeq(ChangedFilesByParts(diff_content), IsSensitiveFile)

(***************************************************************************)
(* Exceptions: the subscripts of the analysers.  seq[index] with an index  *)
(* of 0 or more raises IndexError when the sequence is not longer than the *)
(* index.  Every other operation of the analysers is defined on all texts. *)
(***************************************************************************)
IndexRaises(seq, index) == index >= Len(seq)

\* parts[3][2:] under a guard that admits three parts
HeaderFilenameRaisesLoose(diff_content) ==
    LET lines == Split(diff_content, NL)
    IN  \E i \in 1..Len(lines) :
           /\ IsHeader(lines[i])
           /\ Len(Split(lines[i], " ")) >= 3
           /\ IndexRaises(Split(lines[i], " "), 3)

\* parts[3][2:] under len(parts) >= 4, in check_sensitive_files,
\* detect_breaking_changes and analyze_diff_impact
HeaderFilenameRaises(diff_content) ==
    LET lines == Split(diff_content, NL)
    IN  \E i \in 1..Len(lines) :
           /\ IsHeader(lines[i])
           /\ Len(Split(lines[i], " ")) >= 4
           /\ IndexRaises(Split(lines[i], " "), 3)

\* parts[0] and parts[1] of a path, under len(parts) > 1; the directories
\* that are looked through are src, lib (and app for the scopes)
PathPartsRaise(filepath, generic) ==
    LET parts == Split(filepath, "/")
    IN  /\ Len(parts) > 1
        /\ \/ IndexRaises(parts, 0)
           \/ parts[1] \in generic /\ Len(parts) > 1 /\ IndexRaises(parts, 1)

DetectScopeRaises(diff_content) ==
    LET changed_files == ChangedFilesByMarker(diff_content)
    IN  \E i \in 1..Len(changed_files) : PathPartsRaise(changed_files[i], GenericDirs)

AnalyzeCommitSplitRaises(diff_content) ==
    LET files_data == ParseDiffFiles(diff_content)
    IN  /\ ~SmallEnough(files_data)
        /\ \E i \in 1..Len(files_data) : PathPartsRaise(files_data[i].path, {S_src, S_lib})

AnalyzeDiffImpactRaises(diff_content) ==
    \/ HeaderFilenameRaises(diff_content)
    \/ DetectScopeRaises(diff_content)

Raised(raises) == IF raises THEN "IndexError" ELSE ""

(***************************************************************************)
(* remove_backticks (utils.py), CommitMessageFormatter.format_message      *)
(* (templates.py), OpenAIProvider.generate_commit_message (ai_providers.py)*)
(***************************************************************************)
Fence3 == <<Backtick, Backtick, Backtick>>

\* ```\w*\n(.*)\n``` with re.DOTALL: the dot matches every character
FencePattern ==
    <<Lit(Fence3), Cls(WordChars, 0, Unbounded), Lit(<<"\n">>),
      NotCls({}, 0, Unbounded), Lit(<<"\n">> \o Fence3)>>
\* the part of the pattern before the group
FenceOpener == SubSeq(FencePattern, 1, 3)

\* re.sub(pattern, r"\1", text) from offset start on: every match, found
\* from left to right without overlap, is replaced by its group
RECURSIVE SubGroupFrom(_, _)
SubGroupFrom(text, start) ==
    IF start >= Len(text) THEN <<>>
    ELSE LET end == MatchEnd(FencePattern, 1, text, start, FALSE)
             opened == MatchEnd(FenceOpener, 1, text, start, FALSE)
         IN  IF end = -1
             THEN <<text[start + 1]>> \o SubGroupFrom(text, start + 1)
             ELSE SubSeq(text, opened + 1, end - Len(Fence3) - 1) \o SubGroupFrom(text, end)

RemoveBackticks(text) == SubGroupFrom(text, 0)

\* remove_backticks(raw_message.strip())
FormatMessage(raw_message) == RemoveBackticks(Strip(raw_message))

\* remove_backticks((content or "").strip())
GenerateCommitMessage(content) == RemoveBackticks(Strip(content))

(***************************************************************************)
(* CommitMessageCache (cache.py)                                           *)
(*                                                                         *)
(* The cache directory maps the name of a file to what it holds:           *)
(* [valid |-> can json.load read it, data |-> the dict it reads].  The     *)
(* SHA-256 digest of a text is written <<"#">> \o text: two texts have the *)
(* same digest only if they are the same text.                             *)
(***************************************************************************)
ExpiryTime == 86400

HexDigest(content) == <<"#">> \o content

\* content = f"{model}:{diff_content}"; hashlib.sha256(content.encode()).hexdigest()
GetCacheKey(diff_content, model) == HexDigest(model \o <<":">> \o diff_content)

GetCachePath(cache_key) == cache_key \o <<".","j","s","o","n">>

\* dict.get(key, default)
DictGet(data, key, default) == IF key \in DOMAIN data THEN data[key] ELSE default

\* the directory without the file
Unlink(files, path) == [q \in DOMAIN files \ {path} |-> files[q]]

\* expiry from the very age of expiry_time on
ExpiredAtExpiryTime(entry, now) == now - DictGet(entry.data, "timestamp", 0) >= ExpiryTime

\* has the entry expired at the time now
Expired(entry, now) == now - DictGet(entry.data, "timestamp", 0) > ExpiryTime

\* get that leaves a file it cannot load where it is
GetKeepingUnloadable(files, now, diff_content, model) ==
    LET cache_path == GetCachePath(GetCacheKey(diff_content, model))
    IN  IF cache_path \notin DOMAIN files
        THEN [result |-> NoneValue, files |-> files]
        ELSE IF ~files[cache_path].valid
        THEN [result |-> NoneValue, files |-> files]
        ELSE IF Expired(files[cache_path], now)
        THEN [result |-> NoneValue, files |-> Unlink(files, cache_path)]
        ELSE [result |-> DictGet(files[cache_path].data, "message", NoneValue),
              files |-> files]

\* get: what it returns and the directory it leaves.  open or json.load
\* raising on a file is files[cache_path].valid = FALSE
Get(files, now, diff_content, model) ==
    LET cache_path == GetCachePath(GetCacheKey(diff_content, model))
    IN  IF cache_path \notin DOMAIN files
        THEN [result |-> NoneValue, files |-> files]
        ELSE IF ~files[cache_path].valid
        THEN [result |-> NoneValue, files |-> Unlink(files, cache_path)]
        ELSE IF Expired(files[cache_path], now)
        THEN [result |-> NoneValue, files |-> Unlink(files, cache_path)]
        ELSE [result |-> DictGet(files[cache_path].data, "message", NoneValue),
              files |-> files]

\* set: the directory it leaves
Set(files, now, diff_content, model, message) ==
    LET cache_path == GetCachePath(GetCacheKey(diff_content, model))
        cache_data == [message |-> Some(message), model |-> model, timestamp |-> now]
    IN  (cache_path :> [valid |-> TRUE, data |-> cache_data]) @@ files

\* clear: every *.json file goes
Clear(files) == [result |-> Cardinality(DOMAIN files), files |-> <<>>]

\* clear_expired: the expired and the unreadable files go
ClearExpired(files, now) ==
    LET gone == {q \in DOMAIN files : ~files[q].valid \/ Expired(files[q], now)}
    IN  [result |-> Cardinality(gone),
         files |-> [q \in DOMAIN files \ gone |-> files[q]]]

(***************************************************************************)
(* The analysers as a state machine: a diff text is given, one API call is *)
(* made on it, and the call record keeps what was called and what came     *)
(* back.                                                                   *)
(***************************************************************************)
NoCall == [op |-> "none"]

S_README == <<"R","E","A","D","M","E",".","m","d">>
RepoDir == <<"/","r">>
OtherDir == <<"/","w">>

\* the default template configuration, with one custom prefix and one
\* example format standing for the catalogs of the defaults
DefaultConfig ==
    [max_subject_length |-> 50, max_recent_commits |-> 5,
     max_context_file_size |-> 10000,
     include_body |-> TRUE, include_reasoning |-> TRUE, conventional_commits |-> TRUE,
     custom_prefixes |-> <<[key |-> <<"f","e","a","t">>, value |-> <<"f","o","r"," ","n","e","w"," ","f","e","a","t","u","r","e","s">>]>>,
     example_formats |-> <<<<"f","e","a","t",":"," ","a","d","d"," ","x">>>>]

\* a repository directory with a README, and another directory with its own
PlainFiles ==
    (RepoDir :> [kind |-> "dir"]) @@ (OtherDir :> [kind |-> "dir"])
    @@ (JoinPath(RepoDir, S_README) :> [kind |-> "file", text |-> <<"G","u","i","d","e","\n">>])
    @@ (JoinPath(OtherDir, S_README) :> [kind |-> "file", text |-> <<" ","O","t","h","e","r">>])

\* no answer of the model yet, an empty cache directory, time 0
\* AIConfig(): the defaults of src/smart_commit/config.py.  A temperature is
\* held in tenths, so 0.1 is 1 and 2.0 is 20
DefaultAIConfig ==
    [model |-> <<"g","p","t">>, max_tokens |-> 500, temperature |-> 1]

\* GlobalConfig() of a process that found no configuration file
\* and no cache call under way in another process
DefaultSettings ==
    /\ ai_config = DefaultAIConfig
    /\ config_file = <<>>
    /\ processes = <<>>

NoResponseEmptyCache ==
    /\ response = <<>>
    /\ cache_files = <<>>
    /\ cache_log = <<>>
    /\ clock = 0

\* the analysers read neither the configuration nor the file system
AnalyserEnvironment ==
    /\ DefaultSettings
    /\ template_config = DefaultConfig
    /\ cwd = RepoDir
    /\ file_system = PlainFiles
    /\ NoResponseEmptyCache

DoParseDiffFiles ==
    /\ call.op = "none"
    /\ call' = [op |-> "_parse_diff_files",
                refs |-> ParseRun(diff).files,
                heap |-> ParseRun(diff).heap,
                raised |-> Raised(FALSE),
                result |-> ParseDiffFiles(diff)]
    /\ UNCHANGED <<diff, template_config, cwd, file_system, response, cache_vars,
                 config_vars, processes>>

DoValidateDiffSize(max_lines, max_chars) ==
    /\ call.op = "none"
    /\ call' = [op |-> "validate_diff_size",
                max_lines |-> max_lines,
                max_chars |-> max_chars,
                raised |-> Raised(FALSE),
                result |-> ValidateDiffSize(diff, max_lines, max_chars)]
    /\ UNCHANGED <<diff, template_config, cwd, file_system, response, cache_vars,
                 config_vars, processes>>

DoAnalyzeDiffImpact ==
    /\ call.op = "none"
    /\ call' = [op |-> "analyze_diff_impact",
                raised |-> Raised(AnalyzeDiffImpactRaises(diff)),
                result |-> AnalyzeDiffImpact(diff)]
    /\ UNCHANGED <<diff, template_config, cwd, file_system, response, cache_vars,
                 config_vars, processes>>

DoAnalyzeCommitSplit ==
    /\ call.op = "none"
    /\ call' = [op |-> "analyze_commit_split",
                files_data |-> ParseDiffFiles(diff),
                raised |-> Raised(AnalyzeCommitSplitRaises(diff)),
                result |-> AnalyzeCommitSplit(diff)]
    /\ UNCHANGED <<diff, template_config, cwd, file_system, response, cache_vars,
                 config_vars, processes>>

(***************************************************************************)
(* Inputs: short free-form diff texts                                      *)
(***************************************************************************)
MaxDiffLines == 4

Header(path) == DiffGit \o <<" ", "a", "/">> \o path \o BMarker \o path

DiffLinePool ==
    {Header(<<"x">>),
     Header(<<"y">>),
     <<"d","i","f","f"," ","-","-","g","i","t"," ","a","/","z">>,
     <<"+","a">>,
     <<"-","a">>,
     <<"+","+","+"," ","b","/","x">>,
     <<"-","-","-"," ","a","/","x">>,
     <<>>}

TextsOf(pool, n) ==
    {Join(ls, <<NL>>) : ls \in UNION {[1..k -> pool] : k \in 1..n}}

Init ==
    /\ diff \in TextsOf(DiffLinePool, MaxDiffLines)
    /\ call = NoCall
    /\ AnalyserEnvironment

Next ==
    \/ DoParseDiffFiles
    \/ \E ml \in {2, DefaultMaxLines}, mc \in {20, DefaultMaxChars} :
          DoValidateDiffSize(ml, mc)
    \/ DoAnalyzeDiffImpact

Spec == Init /\ [][Next]_vars

(***************************************************************************)
(* Claims                                                                  *)
(***************************************************************************)

\* C1: the diff parser returns the file records in order of header
\* appearance, each record appended to the result exactly once: the result
\* list refers to the records created, first to last, each one time.
C1_EachRecordAppendedOnce ==
    call.op = "_parse_diff_files" =>
        call.refs = [i \in 1..Len(call.heap) |-> i]

\* C2: the additions of the parsed records sum to the number of addition
\* lines of the whole diff, and their deletions to the number of deletion
\* lines, which are the counts analyze_diff_impact reports.
C2_CountsSumToDiffTotals ==
    call.op = "_parse_diff_files" =>
        /\ SumSeq([i \in 1..Len(call.result) |-> call.result[i].additions])
             = ImpactCounts(diff).additions
        /\ SumSeq([i \in 1..Len(call.result) |-> call.result[i].deletions])
             = ImpactCounts(diff).deletions

\* C3: validate_diff_size reports as file_count the number of records the
\* diff parser returns for the same text.
C3_FileCountIsRecordCount ==
    call.op = "validate_diff_size" =>
        call.result.file_count = Len(ParseDiffFiles(diff))

(***************************************************************************)
(* Inputs: diffs of several files, for the commit-split advisor            *)
(***************************************************************************)
MaxSplitFiles == 8

SplitPaths ==
    <<<<"t","e","s","t","s","/","a",".","p","y">>,
      <<"t","e","s","t","s","/","b",".","m","d">>,
      <<"c",".","j","s","o","n">>,
      <<"s","r","c","/","m","/","a",".","p","y">>,
      <<"s","r","c","/","m","/","b",".","p","y">>,
      <<"x",".","p","y">>,
      <<"l","i","b","/","n","/","a",".","p","y">>,
      <<"u","/","a",".","p","y">>,
      <<"v","/","a",".","p","y">>,
      <<"w","/","a",".","p","y">>>>

\* the headers of the chosen paths, in the order of SplitPaths
SplitText(chosen) ==
    LET Chosen(i) == i \in chosen
        idx == SelectSeq([i \in 1..Len(SplitPaths) |-> i], Chosen)
    IN  Join([k \in 1..Len(idx) |-> Header(SplitPaths[idx[k]])], <<NL>>)

InitSplit ==
    /\ diff \in {SplitText(c) : c \in {c \in SUBSET (1..Len(SplitPaths)) :
                                        Cardinality(c) <= MaxSplitFiles}}
    /\ call = NoCall
    /\ AnalyserEnvironment

NextSplit == DoAnalyzeCommitSplit

SpecSplit == InitSplit /\ [][NextSplit]_vars

\* C4: the groups analyze_commit_split returns are pairwise disjoint: no
\* file path appears in more than one group.
C4_GroupsDisjoint ==
    call.op = "analyze_commit_split" =>
        \A i, j \in 1..Len(call.result) :
            i # j =>
                \A a \in 1..Len(call.result[i].files), b \in 1..Len(call.result[j].files) :
                    call.result[i].files[a] # call.result[j].files[b]

\* some file is a test, documentation or configuration file, or some scope
\* holds at least two of the other files
C5_SomeGroupQualifies(files) ==
    LET Categorised(f) == IsTestFile(f.path) \/ IsDocFile(f.path) \/ IsConfigFile(f.path)
        rest == {i \in 1..Len(files) : ~Categorised(files[i])}
    IN  \/ \E i \in 1..Len(files) : Categorised(files[i])
        \/ \E i, j \in rest :
              i # j /\ ScopeOfPath(files[i].path) = ScopeOfPath(files[j].path)

\* C5: analyze_commit_split returns an empty list whenever the parsed file
\* count is at most 5, and a non-empty list whenever it exceeds 5 and at
\* least one group qualifies.
C5_NoSplitThreshold ==
    call.op = "analyze_commit_split" =>
        /\ Len(call.files_data) <= 5 => call.result = <<>>
        /\ (Len(call.files_data) > 5 /\ C5_SomeGroupQualifies(call.files_data))
              => call.result # <<>>

\* a diff of more than 5 files with a qualifying group, split into groups
C5_Witness ==
    /\ call.op = "analyze_commit_split"
    /\ Len(call.files_data) > 5
    /\ C5_SomeGroupQualifies(call.files_data)
    /\ call.result # <<>>

(***************************************************************************)
(* Inputs: diffs of many files and lines, for the size thresholds          *)
(***************************************************************************)
MaxSizeFiles == 22
MaxSizeAdds == 3

SizeText(n, m) ==
    Join([i \in 1..n |-> Header(<<"x">>)] \o [i \in 1..m |-> <<"+", "a">>], <<NL>>)

SizeMaxLines == {3, 21, DefaultMaxLines}
SizeMaxChars == {50, 400, DefaultMaxChars}

InitSize ==
    /\ diff \in {SizeText(n, m) : n \in 0..MaxSizeFiles, m \in 0..MaxSizeAdds}
    /\ call = NoCall
    /\ AnalyserEnvironment

NextSize ==
    \E ml \in SizeMaxLines, mc \in SizeMaxChars : DoValidateDiffSize(ml, mc)

SpecSize == InitSize /\ [][NextSize]_vars

\* the number of "\n" in a text
NewlineCount(text) == Cardinality({i \in 1..Len(text) : text[i] = NL})

\* C10: validate_diff_size returns is_valid = false exactly when line_count
\* > max_lines or char_count > max_chars, line_count being the number of
\* newline-delimited segments; file_count > 20 adds a warning without
\* changing is_valid; the warnings are one per breached condition, in the
\* order lines, characters, files.
C10_ValidityAndWarnings ==
    call.op = "validate_diff_size" =>
        LET r == call.result
            Breached(about) ==
                \/ about = "lines" /\ r.line_count > call.max_lines
                \/ about = "characters" /\ r.char_count > call.max_chars
                \/ about = "files" /\ r.file_count > 20
        IN  /\ r.line_count = NewlineCount(diff) + 1
            /\ r.char_count = Len(diff)
            /\ (r.is_valid = FALSE) <=>
                   (r.line_count > call.max_lines \/ r.char_count > call.max_chars)
            /\ [i \in 1..Len(r.warnings) |-> r.warnings[i].about]
                 = SelectSeq(<<"lines", "characters", "files">>, Breached)

\* a diff of more than 20 files within both size thresholds: warned about, valid
C10_Witness ==
    /\ call.op = "validate_diff_size"
    /\ call.result.file_count > 20
    /\ call.result.is_valid
    /\ Len(call.result.warnings) = 1

(***************************************************************************)
(* Inputs: diffs whose lines carry secrets of the catalog's shapes         *)
(***************************************************************************)
MaxMaskLines == 2

MaskLinePool ==
    {<<"+","A","W","S","_","A","C","C","E","S","S","_","K","E","Y","_","I","D","=","A","K","I","A","I","O","S","F","O","D","N","N","7","E","X","A","M","P","L","E">>,
     <<"+","b","e","a","r","e","r"," ","x">>,
     <<"+","B","e","a","r","e","r"," ",".",".","."," ","b","e","a","r","e","r"," ","a","=">>,
     <<"+","p","a","s","s","w","o","r","d","=","h","u","n","t","e","r","2","!">>,
     <<"+","r","e","d","i","s",":","/","/","h">>,
     <<"+","u","r","l"," ","="," ","p","o","s","t","g","r","e","s","q","l",":","/","/","u","s","e","r",":","p","w","@","h","o","s","t","/","d","b">>,
     <<"+","t","o","k","e","n",":"," ","a","b","c","d","e","f","g","h","i","j","0","1","2","3","4","5","6","7","8","9">>,
     <<"+","-","-","-","-","-","B","E","G","I","N"," ","R","S","A"," ","P","R","I","V","A","T","E"," ","K","E","Y","-","-","-","-","-">>,
     <<"+","e","y","J","a",".","e","y","J","b",".","c">>,
     <<"+","a","w","s","_","s","e","c","r","e","t"," ","="," ","'","a","b","c","d","e","f","g","h","i","j","k","l","m","n","o","p","q","r","s","t","u","v","w","x","y","z","0","1","2","3","4","5","6","7","8","9","A","B","C","D","'">>,
     <<"+","s","k","_","l","i","v","e","_","a","b","c","d","e","f","g","h","i","j","k","l","m","n","o","p","q","r","s","t","u","v","w","x">>,
     <<"+","+","+"," ","b","e","a","r","e","r"," ","x">>}

DoDetectSensitiveData ==
    /\ call.op = "none"
    /\ LET ms == SensitiveMatches(diff)
       IN  call' = [op |-> "detect_sensitive_data",
                    matches |-> ms,
                    raised |-> Raised(FALSE),
                    result |-> MaskedFindings(ms)]
    /\ UNCHANGED <<diff, template_config, cwd, file_system, response, cache_vars,
                 config_vars, processes>>

InitMask ==
    /\ diff \in TextsOf(MaskLinePool, MaxMaskLines)
    /\ call = NoCall
    /\ AnalyserEnvironment

NextMask == DoDetectSensitiveData

SpecMask == InitMask /\ [][NextMask]_vars

TerseConfig ==
    [max_subject_length |-> 72, max_recent_commits |-> 0,
     max_context_file_size |-> 100,
     include_body |-> FALSE, include_reasoning |-> FALSE, conventional_commits |-> FALSE,
     custom_prefixes |-> <<>>,
     example_formats |-> <<>>]

\* the default configuration, told to embed one recent commit
BriefConfig == [DefaultConfig EXCEPT !.max_recent_commits = 1]

PromptConfigs == {DefaultConfig, TerseConfig, BriefConfig}

\* a README longer than TerseConfig admits, a directory where a file is
\* expected, and a README that cannot be opened
AwkwardFiles ==
    (RepoDir :> [kind |-> "dir"]) @@ (OtherDir :> [kind |-> "dir"])
    @@ (JoinPath(RepoDir, <<"d","o","c","s">>) :> [kind |-> "dir"])
    @@ (JoinPath(RepoDir, S_README) :>
           [kind |-> "file",
            text |-> <<"S","m","a","r","t"," ","c","o","m","m","i","t"," ","w","r","i","t","e","s"," ","c","o","m","m",
                      "i","t"," ","m","e","s","s","a","g","e","s"," ","f","r","o","m"," ","s","t","a","g","e","d"," ",
                      "c","h","a","n","g","e","s",".","\n","I","t"," ","r","e","a","d","s"," ","t","h","i","s"," ",
                      "g","u","i","d","e"," ","f","o","r"," ","c","o","n","t","e","x","t",","," ","w","h","i","c","h",
                      " ","i","s"," ","l","o","n","g",".">>])
    @@ (JoinPath(OtherDir, S_README) :> [kind |-> "denied"])

PromptFiles == {PlainFiles, AwkwardFiles}
PromptDirs == {RepoDir, OtherDir}

PromptDiffs ==
    {<<"d","i","f","f"," ","-","-","g","i","t"," ","a","/","s","r","c","/","a","p","i","/","x",".","p",
       "y"," ","b","/","s","r","c","/","a","p","i","/","x",".","p","y","\n","-","d","e","f"," ","f",
       "(","a",")",":","\n","+","d","e","f"," ","f","(","a",","," ","b",")",":">>,
     <<"d","i","f","f"," ","-","-","g","i","t"," ","a","/","R","E","A","D","M","E",".","m","d"," ","b",
       "/","R","E","A","D","M","E",".","m","d","\n","+","u","s","a","g","e">>}

PromptContexts ==
    {[name |-> <<"t","o","o","l">>, description |-> NoneValue,
      tech_stack |-> Some(<<<<"p","y","t","h","o","n">>, <<"t","o","m","l">>>>),
      recent_commits |-> Some(<<<<"f","e","a","t",":"," ","a">>, <<"f","i","x",":"," ","b">>>>)],
     [name |-> <<"l","i","b">>, description |-> Some(<<"A"," ","l","i","b","r","a","r","y">>),
      tech_stack |-> Some(<<>>), recent_commits |-> Some(<<>>)]}

\* a configuration that names the repository by the working directory, and
\* one that gives its absolute path
RelativeRepoConfig ==
    [absolute_path |-> NoneValue,
     context_files |-> <<S_README, <<"d","o","c","s">>>>,
     commit_conventions |-> <<[key |-> <<"s","t","y","l","e">>, value |-> <<"i","m","p","e","r","a","t","i","v","e">>]>>]
AbsoluteRepoConfig ==
    [absolute_path |-> Some(RepoDir),
     context_files |-> <<S_README>>,
     commit_conventions |-> <<>>]

PromptRepoConfigs == {NoneValue, Some(RelativeRepoConfig), Some(AbsoluteRepoConfig)}
PromptMessages == {NoneValue, Some(<<"f","i","x","e","s"," ","#","1","2">>)}

\* the keywords of the calls the repository makes: the two-argument calls of
\* the tests, the call of mcp.py, the call of cli.py generate (which hands
\* no repository configuration over when privacy is on), and the privacy
\* calls of the tests
CallsOn(d) ==
    {[diff_content |-> d, repo_context |-> c] : c \in PromptContexts}
    \cup {[diff_content |-> d, repo_context |-> c, repo_config |-> r, additional_context |-> a] :
             c \in PromptContexts, r \in PromptRepoConfigs, a \in PromptMessages}
    \cup {[diff_content |-> d, repo_context |-> c,
           repo_config |-> IF privacy THEN NoneValue ELSE r,
           additional_context |-> a, privacy_mode |-> privacy] :
             c \in PromptContexts, r \in PromptRepoConfigs, a \in PromptMessages,
             privacy \in BOOLEAN}
    \cup {[diff_content |-> d, repo_context |-> c, privacy_mode |-> TRUE] : c \in PromptContexts}
    \cup {[diff_content |-> d, repo_context |-> c, repo_config |-> r, privacy_mode |-> TRUE] :
             c \in PromptContexts, r \in PromptRepoConfigs \ {NoneValue}}

DoBuildPrompt(kwargs) ==
    LET repeats == call.op = "build_prompt" /\ call.kwargs = kwargs IN
    /\ call' = [op |-> "build_prompt",
                kwargs |-> kwargs,
                cwd |-> cwd,
                outcome |-> CallBuildPrompt(template_config, file_system, cwd, kwargs),
                before |-> IF repeats
                           THEN Some([cwd |-> call.cwd, outcome |-> call.outcome])
                           ELSE NoneValue]
    /\ UNCHANGED <<diff, template_config, cwd, file_system, response, cache_vars,
                 config_vars, processes>>

\* os.chdir, or the next invocation started from another directory
ChangeDirectory(dir) ==
    /\ dir # cwd
    /\ PathExists(file_system, dir, cwd)
    /\ cwd' = dir
    /\ UNCHANGED <<diff, call, template_config, file_system, response, cache_vars,
                 config_vars, processes>>

InitPrompt ==
    /\ diff \in PromptDiffs
    /\ call = NoCall
    /\ template_config \in PromptConfigs
    /\ cwd \in PromptDirs
    /\ file_system \in PromptFiles
    /\ NoResponseEmptyCache
    /\ DefaultSettings

NextPrompt ==
    \/ \E kwargs \in CallsOn(diff) : DoBuildPrompt(kwargs)
    \/ \E dir \in PromptDirs : ChangeDirectory(dir)

SpecPrompt == InitPrompt /\ [][NextPrompt]_vars

PrivacyOn(kwargs) == "privacy_mode" \in DOMAIN kwargs /\ kwargs.privacy_mode

\* the hunk lines of a diff: its added and removed lines
HunkLines(d) ==
    SelectSeq(Split(d, NL), LAMBDA line : IsAddition(line) \/ IsDeletion(line))

\* C6: a call of build_prompt with privacy_mode=true returns a prompt in
\* which no path of the diff's headers occurs, the paths being replaced by
\* the labels file1, file2, ... in order, and in which every hunk line of
\* the diff occurs verbatim.
C6_PrivacyHidesPathsKeepsHunks ==
    (call.op = "build_prompt" /\ PrivacyOn(call.kwargs)) =>
        LET paths == ChangedFilesByMarker(call.kwargs.diff_content)
            hunks == HunkLines(call.kwargs.diff_content)
            prompt == call.outcome.prompt
        IN  /\ call.outcome.raised = ""
            /\ \A i \in 1..Len(paths) :
                  /\ ~Contains(prompt, paths[i])
                  /\ Contains(prompt, <<"f","i","l","e">> \o Decimal(i))
            /\ \A i \in 1..Len(hunks) : Contains(prompt, hunks[i])

\* the texts of the context files a repository configuration lists that
\* can be read in the directory wd, as the builder reads them
ReadableContexts(files, wd, rc) ==
    LET repo_path == RepoPath(Some(rc))
        Readable(name) ==
            /\ PathIsFile(files, JoinPath(repo_path, name), wd)
            /\ files[Resolve(JoinPath(repo_path, name), wd)].kind = "file"
        names == SelectSeq(rc.context_files, Readable)
    IN  {Strip(files[Resolve(JoinPath(repo_path, names[i]), wd)].text) : i \in 1..Len(names)}

\* C7: a call of build_prompt with privacy_mode=true and a repository
\* configuration that lists readable context files returns a prompt without
\* the context-files sub-section and without the text of any of the files.
C7_PrivacyOmitsContextFiles ==
    (/\ call.op = "build_prompt"
     /\ PrivacyOn(call.kwargs)
     /\ "repo_config" \in DOMAIN call.kwargs
     /\ call.kwargs.repo_config # NoneValue
     /\ ReadableContexts(file_system, call.cwd, call.kwargs.repo_config[1]) # {}) =>
        /\ call.outcome.raised = ""
        /\ ~Contains(call.outcome.prompt, ContextFilesHeading)
        /\ \A text \in ReadableContexts(file_system, call.cwd, call.kwargs.repo_config[1]) :
              ~Contains(call.outcome.prompt, text)

ResolvedRepoPath(kwargs, wd) ==
    Resolve(RepoPath(IF "repo_config" \in DOMAIN kwargs THEN kwargs.repo_config
                     ELSE NoneValue),
            wd)

Argument(kwargs, name) == IF name \in DOMAIN kwargs THEN kwargs[name] ELSE NoneValue

EmptyList(optional) == optional = NoneValue \/ optional = Some(<<>>)

\* C14: a section of the prompt whose data is absent is omitted entirely,
\* header included: no suggested scopes, no breaking findings, no example
\* formats, no tech stack, no recent commits, no additional context.
C14_AbsentDataNoSection ==
    (call.op = "build_prompt" /\ call.outcome.raised = "") =>
        LET k == call.kwargs
            prompt == call.outcome.prompt
            context == k.repo_context
            additional == Argument(k, "additional_context")
        IN  /\ DetectScopeFromDiff(k.diff_content) = <<>> =>
                  ~Contains(prompt, <<"*","*","S","u","g","g","e","s","t","e","d"," ","S","c","o","p","e","s">>)
            /\ DetectBreakingChanges(k.diff_content) = <<>> =>
                  ~Contains(prompt, <<"B","R","E","A","K","I","N","G"," ","C","H","A","N","G","E","S"," ","D","E","T","E","C","T","E","D">>)
            /\ template_config.example_formats = <<>> =>
                  ~Contains(prompt, <<"*","*","E","x","a","m","p","l","e"," ","F","o","r","m","a","t","s">>)
            /\ EmptyList(context.tech_stack) =>
                  ~Contains(prompt, <<"*","*","T","e","c","h"," ","S","t","a","c","k",":","*","*">>)
            /\ EmptyList(context.recent_commits) =>
                  ~Contains(prompt, <<"*","*","R","e","c","e","n","t"," ","C","o","m","m","i","t","s">>)
            /\ (additional = NoneValue \/ additional = Some(<<>>)) =>
                  ~Contains(prompt, <<"*","*","A","d","d","i","t","i","o","n","a","l"," ","C","o","n","t","e","x","t",":","*","*">>)

\* the commit lines of the prompt: the lines that follow the heading of the
\* recent commits, as far as they are list items
RecentCommitLines(prompt) ==
    LET lines == Split(prompt, NL)
        IsHeading(i) == StartsWith(lines[i], <<"-"," ","*","*","R","e","c","e","n","t"," ","C","o","m","m","i","t","s">>)
        IsItem(i) == StartsWith(lines[i], <<" "," ","-"," ">>)
    IN  IF \E i \in 1..Len(lines) : IsHeading(i)
        THEN LET h == CHOOSE i \in 1..Len(lines) : IsHeading(i)
                 stop == CHOOSE j \in (h+1)..(Len(lines)+1) :
                            /\ j = Len(lines) + 1 \/ ~IsItem(j)
                            /\ \A i \in (h+1)..(j-1) : IsItem(i)
             IN  [i \in 1..(stop - h - 1) |-> SliceFrom(lines[h + i], 4)]
        ELSE <<>>

\* C15: for a configured max_recent_commits of 0..50, the prompt embeds the
\* first max_recent_commits entries of repo_context.recent_commits and no
\* other commit line.
C15_AtMostConfiguredCommits ==
    (call.op = "build_prompt" /\ call.outcome.raised = ""
        /\ call.kwargs.repo_context.recent_commits # NoneValue) =>
        LET commits == call.kwargs.repo_context.recent_commits[1]
            limit == template_config.max_recent_commits
            shown == IF Len(commits) < limit THEN Len(commits) ELSE limit
        IN  /\ limit \in 0..50
            /\ RecentCommitLines(call.outcome.prompt) = SubSeq(commits, 1, shown)

(***************************************************************************)
(* Scope detection on diffs of several files                               *)
(***************************************************************************)
MaxScopeFiles == 8

ScopePaths ==
    <<<<"s","r","c","/","a","p","i","/","x",".","p","y">>,
      <<"t","e","s","t","s","/","u","n","i","t","/","a",".","p","y">>,
      <<"d","o","c","s","/","a",".","m","d">>,
      <<"l","i","b","/","s","r","c","/","x">>,
      <<"a","p","p","/","/","y">>,
      <<"a","/","1">>,
      <<"b","/","1">>,
      <<"c","/","1">>,
      <<"B","/","1">>,
      <<"x",".","c","s","s">>>>

\* the headers of the chosen paths, in the order of ScopePaths
ScopeText(chosen) ==
    LET Chosen(i) == i \in chosen
        idx == SelectSeq([i \in 1..Len(ScopePaths) |-> i], Chosen)
    IN  Join([k \in 1..Len(idx) |-> Header(ScopePaths[idx[k]])], <<NL>>)

\* scope_counts before the generic scopes are popped: every add_scope counted
RawScopeTally(diff_content) ==
    LET changed_files == ChangedFilesByMarker(diff_content)
        tags == Flatten([i \in 1..Len(changed_files) |-> ScopeTags(changed_files[i])])
    IN  [name \in {tags[i] : i \in 1..Len(tags)} |->
            Cardinality({i \in 1..Len(tags) : tags[i] = name})]

DoDetectScopeFromDiff ==
    /\ call.op = "none"
    /\ call' = [op |-> "detect_scope_from_diff",
                tally |-> RawScopeTally(diff),
                raised |-> Raised(DetectScopeRaises(diff)),
                result |-> DetectScopeFromDiff(diff)]
    /\ UNCHANGED <<diff, template_config, cwd, file_system, response, cache_vars,
                 config_vars, processes>>

InitScope ==
    /\ diff \in {ScopeText(c) : c \in {c \in SUBSET (1..Len(ScopePaths)) :
                                        Cardinality(c) <= MaxScopeFiles}}
    /\ call = NoCall
    /\ AnalyserEnvironment

NextScope == DoDetectScopeFromDiff

SpecScope == InitScope /\ [][NextScope]_vars

\* the scopes that count: every tallied name but 'src', 'lib', 'app' and ''
CountedScopes(tally) == DOMAIN tally \ (GenericDirs \cup {<<>>})

\* C11: detect_scope_from_diff returns at most 5 scopes, each a tallied
\* scope other than 'src', 'lib', 'app' and '', in order of descending tally
\* with equal tallies in ascending string order; a scope is left out only
\* when 5 are returned, and each one left out has a tally no higher than
\* that of every returned scope and, on an equal tally, sorts after it.
C11_TopScopesInOrder ==
    call.op = "detect_scope_from_diff" =>
        LET r == call.result
            tally == call.tally
            returned == {r[i] : i \in 1..Len(r)}
            left_out == CountedScopes(tally) \ returned
        IN  /\ Len(r) <= 5
            /\ returned \subseteq CountedScopes(tally)
            /\ \A i, j \in 1..Len(r) :
                  i < j => \/ tally[r[i]] > tally[r[j]]
                           \/ tally[r[i]] = tally[r[j]] /\ StrLess(r[i], r[j])
            /\ Len(r) < 5 => left_out = {}
            /\ \A o \in left_out : \A i \in 1..Len(r) :
                  \/ tally[o] < tally[r[i]]
                  \/ tally[o] = tally[r[i]] /\ StrLess(r[i], o)

\* five scopes were returned with a tie among them, others were left out,
\* and a generic name and the empty name had been tallied
C11_Witness ==
    /\ call.op = "detect_scope_from_diff"
    /\ Len(call.result) = 5
    /\ CountedScopes(call.tally) \ {call.result[i] : i \in 1..5} # {}
    /\ \E i \in 1..4 : call.tally[call.result[i]] = call.tally[call.result[i + 1]]
    /\ call.tally[call.result[1]] > call.tally[call.result[5]]
    /\ <<>> \in DOMAIN call.tally
    /\ S_src \in DOMAIN call.tally

(***************************************************************************)
(* Breaking-change detection: a few free lines, then one removed signature *)
(* repeated, so that more findings arise than are returned                 *)
(***************************************************************************)
MaxBreakingLines == 2
MaxRepeats == 11

BreakingLinePool ==
    {<<"d","i","f","f"," ","-","-","g","i","t"," ","a","/","m",".","p","y"," ","b","/","m",".","p","y">>,
     <<"-","d","e","f"," ","f","(","a",")",":">>,
     <<"-","c","l","a","s","s"," ","A","(","B","a","s","e","C","o","n","f","i","g",")">>,
     <<"-","e","x","p","o","r","t"," ","c","l","a","s","s"," ","A">>,
     <<"-","-","-"," ","a","/","m",".","p","y">>,
     <<"+","d","e","f"," ","g","(","b",")",":">>,
     <<"-","x"," ","="," ","1">>,
     <<" ","-","d","e","f"," ","h","(",")",":">>}

RepeatedLine == <<"-","p","u","b","l","i","c"," ","i","n","t"," ","r","u","n","(">>

BreakingText(lead, n) ==
    Join(lead \o [i \in 1..n |-> RepeatedLine], <<NL>>)

DoDetectBreakingChanges ==
    /\ call.op = "none"
    /\ call' = [op |-> "detect_breaking_changes",
                raised |-> Raised(HeaderFilenameRaises(diff)),
                result |-> DetectBreakingChanges(diff)]
    /\ UNCHANGED <<diff, template_config, cwd, file_system, response, cache_vars,
                 config_vars, processes>>

InitBreaking ==
    /\ diff \in {BreakingText(lead, n) :
                    lead \in UNION {[1..k -> BreakingLinePool] : k \in 0..MaxBreakingLines},
                    n \in 0..MaxRepeats}
    /\ call = NoCall
    /\ AnalyserEnvironment

NextBreaking == DoDetectBreakingChanges

SpecBreaking == InitBreaking /\ [][NextBreaking]_vars

\* the catalog entries whose signature the line matches
MatchingSignatures(line) ==
    {k \in 1..Len(breaking_patterns) : SearchAnchored(breaking_patterns[k].pat, line)}

\* the numbers of the removed lines of the diff that match some signature
BreakingCandidates(d) ==
    LET lines == Split(d, NL)
    IN  SelectSeq([i \in 1..Len(lines) |-> i],
                  LAMBDA i : IsDeletion(lines[i]) /\ MatchingSignatures(lines[i]) # {})

\* C12: detect_breaking_changes returns the first (at most 10) findings, in
\* diff order, of the lines that start with '-' but not '---' and match a
\* signature of the catalog: one finding for each such line, about that line
\* and with the reason of the earliest catalog entry the line matches.
C12_FirstSignatureFirstTen ==
    call.op = "detect_breaking_changes" =>
        LET lines == Split(diff, NL)
            cand == BreakingCandidates(diff)
            r == call.result
        IN  /\ Len(r) = IF Len(cand) < 10 THEN Len(cand) ELSE 10
            /\ \A n \in 1..Len(r) :
                  LET line == lines[cand[n]]
                      first == CHOOSE k \in MatchingSignatures(line) :
                                  \A l \in MatchingSignatures(line) : k <= l
                  IN  /\ r[n].reason = breaking_patterns[first].reason
                      /\ EndsWith(r[n].detail,
                                  <<":", " ">> \o SliceTo(Strip(SliceFrom(line, 1)), 80))

\* more than 10 removed lines matched, one of them matched several
\* signatures, and the diff also held a removed line that matched none
C12_Witness ==
    /\ call.op = "detect_breaking_changes"
    /\ Len(call.result) = 10
    /\ Len(BreakingCandidates(diff)) > 10
    /\ \E n \in 1..10 :
          Cardinality(MatchingSignatures(Split(diff, NL)[BreakingCandidates(diff)[n]])) > 1
    /\ \E i \in 1..Len(Split(diff, NL)) :
          /\ StartsWith(Split(diff, NL)[i], Minus)
          /\ MatchingSignatures(Split(diff, NL)[i]) = {}

\* C25: every finding of detect_breaking_changes has the detail
\* '<path>: <snippet>', <path> being the file path (what follows ' b/') of
\* the nearest 'diff --git' header before the removed line and <snippet> the
\* first 80 characters of the line without its '-' and surrounding
\* whitespace; no finding is attributed to another file or to no file.
C25_DetailNamesNearestHeaderFile ==
    call.op = "detect_breaking_changes" =>
        LET lines == Split(diff, NL)
            cand == BreakingCandidates(diff)
            r == call.result
        IN  \A n \in 1..Len(r) :
               LET headers == {j \in 1..cand[n] : IsHeader(lines[j])}
               IN  /\ headers # {}
                   /\ LET header == lines[CHOOSE j \in headers :
                                              \A l \in headers : l <= j]
                      IN  /\ Find(header, BMarker) # -1
                          /\ r[n].detail =
                                SliceFrom(header, Find(header, BMarker) + 3)
                                    \o <<":", " ">>
                                    \o SliceTo(Strip(SliceFrom(lines[cand[n]], 1)), 80)

(***************************************************************************)
(* Impact analysis on diffs of chosen files with chosen numbers of added   *)
(* and removed lines                                                       *)
(***************************************************************************)
MaxImpactAdds == 5
MaxImpactDels == 5

ImpactHeaders ==
    <<Header(<<"R","E","A","D","M","E",".","m","d">>),
      Header(<<"D","o","c","s","/","g","u","i","d","e",".","t","x","t">>),
      Header(<<"t","e","s","t","s","/","t","e","s","t","_","a",".","p","y">>),
      Header(<<"s","r","c","/","m",".","p","y">>),
      <<"d","i","f","f"," ","-","-","g","i","t"," ","a","/","d","o","c","s">>>>

\* the chosen headers, n added lines, m removed lines that match no
\* signature and b removed lines that match one
ImpactText(chosen, n, m, b) ==
    LET Chosen(i) == i \in chosen
        idx == SelectSeq([i \in 1..Len(ImpactHeaders) |-> i], Chosen)
    IN  Join([k \in 1..Len(idx) |-> ImpactHeaders[idx[k]]]
             \o [i \in 1..n |-> <<"+","y"," ","="," ","2">>]
             \o [i \in 1..m |-> <<"-","x"," ","="," ","1">>]
             \o [i \in 1..b |-> <<"-","d","e","f"," ","f","(","a",")",":">>],
             <<NL>>)

InitImpact ==
    /\ diff \in {ImpactText(c, n, m, b) :
                    c \in SUBSET (1..Len(ImpactHeaders)),
                    n \in 0..MaxImpactAdds, m \in 0..MaxImpactDels, b \in 0..1}
    /\ call = NoCall
    /\ AnalyserEnvironment

NextImpact == DoAnalyzeDiffImpact

SpecImpact == InitImpact /\ [][NextImpact]_vars

\* C13: analyze_diff_impact gives change_type by the first of these that
\* applies: 'docs' if a changed path looks like documentation, 'test' if one
\* looks test-related, 'feature' if additions > 2*deletions, 'removal' if
\* deletions > 2*additions, 'breaking' if there are breaking findings, and
\* 'refactor' otherwise.
C13_ChangeTypeFirstMatch ==
    call.op = "analyze_diff_impact" =>
        LET r == call.result
            paths == ChangedFilesByParts(diff)
            docs == \E i \in 1..Len(paths) : LooksLikeDocs(paths[i])
            test == \E i \in 1..Len(paths) : LooksLikeTest(paths[i])
            feature == r.additions > 2 * r.deletions
            removal == r.deletions > 2 * r.additions
            breaking == r.breaking_changes # <<>>
        IN  /\ docs => r.change_type = "docs"
            /\ (~docs /\ test) => r.change_type = "test"
            /\ (~docs /\ ~test /\ feature) => r.change_type = "feature"
            /\ (~docs /\ ~test /\ ~feature /\ removal) => r.change_type = "removal"
            /\ (~docs /\ ~test /\ ~feature /\ ~removal /\ breaking) =>
                  r.change_type = "breaking"
            /\ (~docs /\ ~test /\ ~feature /\ ~removal /\ ~breaking) =>
                  r.change_type = "refactor"

\* a diff of a documentation file with far more additions than deletions
\* was classified
C13_Witness ==
    /\ call.op = "analyze_diff_impact"
    /\ call.result.change_type = "docs"
    /\ call.result.additions > 2 * call.result.deletions
    /\ call.result.breaking_changes # <<>>
    /\ \E i \in 1..Len(ChangedFilesByParts(diff)) : LooksLikeTest(ChangedFilesByParts(diff)[i])

(***************************************************************************)
(* Every analyser on arbitrary text: lines that are no diff at all, headers *)
(* cut short, headers with empty parts                                     *)
(***************************************************************************)
MaxTextLines == 2

AnyLinePool ==
    {<<>>,
     <<"d","i","f","f"," ","-","-","g","i","t">>,
     <<"d","i","f","f"," ","-","-","g","i","t"," ","a","/","z">>,
     <<"d","i","f","f"," ","-","-","g","i","t"," ","a","/","s","r","c","/"," ","b","/","s","r","c","/">>,
     <<"d","i","f","f"," ","-","-","g","i","t"," ","a","/",".","e","n","v"," ","b","/","l","i","b","/",".","E","N","V">>,
     <<"d","i","f","f"," ","-","-","g","i","t"," "," ","b","/","a","p","p">>,
     <<"n","o","t"," ","a"," ","d","i","f","f">>,
     <<" ","b","/","t","e","s","t","s","/","x">>,
     <<"+","a">>,
     <<"-","d","e","f"," ","f","(","a",")",":">>,
     <<"+","+","+"," ","b","/","x">>,
     <<"-","-","-"," ","a","/","x">>,
     <<"+","p","a","s","s","w","o","r","d"," ","="," ","h","u","n","t","e","r","2","h","u","n","t","e","r","2">>}

DoCheckSensitiveFiles ==
    /\ call.op = "none"
    /\ call' = [op |-> "check_sensitive_files",
                raised |-> Raised(HeaderFilenameRaises(diff)),
                result |-> CheckSensitiveFiles(diff)]
    /\ UNCHANGED <<diff, template_config, cwd, file_system, response, cache_vars,
                 config_vars, processes>>

InitAnyText ==
    /\ diff \in TextsOf(AnyLinePool, MaxTextLines)
    /\ call = NoCall
    /\ AnalyserEnvironment

NextAnyText ==
    \/ DoParseDiffFiles
    \/ DoValidateDiffSize(DefaultMaxLines, DefaultMaxChars)
    \/ DoDetectSensitiveData
    \/ DoCheckSensitiveFiles
    \/ DoDetectScopeFromDiff
    \/ DoDetectBreakingChanges
    \/ DoAnalyzeDiffImpact
    \/ DoAnalyzeCommitSplit

SpecAnyText == InitAnyText /\ [][NextAnyText]_vars

\* no line of the text carries the file-header marker
NoFileHeader(text) ==
    \A i \in 1..Len(Split(text, NL)) : ~StartsWith(Split(text, NL)[i], DiffGit)

MaxTokens == 5
MaxPasses == 2

ResponseTokens == {Fence3, <<"\n">>, <<"a">>, <<" ">>}

Responses ==
    {Flatten(ts) : ts \in UNION {[1..k -> ResponseTokens] : k \in 0..MaxTokens}}

DoGenerateCommitMessage ==
    /\ call.op = "none"
    /\ call' = [op |-> "generate_commit_message",
                content |-> response,
                passes |-> 1,
                result |-> GenerateCommitMessage(response)]
    /\ UNCHANGED <<diff, template_config, cwd, file_system, response, cache_vars,
                 config_vars, processes>>

\* format_message on the raw answer, or on what the pass before returned
DoFormatMessage ==
    /\ call.op \in {"none", "generate_commit_message", "format_message"}
    /\ call.op # "none" => call.passes < MaxPasses
    /\ LET raw_message == IF call.op = "none" THEN response ELSE call.result
       IN  call' = [op |-> "format_message",
                    raw_message |-> raw_message,
                    passes |-> IF call.op = "none" THEN 1 ELSE call.passes + 1,
                    result |-> FormatMessage(raw_message)]
    /\ UNCHANGED <<diff, template_config, cwd, file_system, response, cache_vars,
                 config_vars, processes>>

InitFormat ==
    /\ DefaultSettings
    /\ response \in Responses
    /\ diff = <<>>
    /\ call = NoCall
    /\ template_config = DefaultConfig
    /\ cwd = RepoDir
    /\ file_system = PlainFiles
    /\ cache_files = <<>>
    /\ cache_log = <<>>
    /\ clock = 0

NextFormat ==
    \/ DoGenerateCommitMessage
    \/ DoFormatMessage

SpecFormat == InitFormat /\ [][NextFormat]_vars

\* the whole text is one fenced block: an opening fence line at its start
\* and a closing fence at its end
EntirelyFenced(text) ==
    /\ MatchEnd(FenceOpener, 1, text, 0, FALSE) # -1
    /\ EndsWith(text, <<"\n">> \o Fence3)
    /\ MatchEnd(FenceOpener, 1, text, 0, FALSE) <= Len(text) - Len(Fence3) - 1

\* what the enclosing fence holds
FencedContent(text) ==
    SubSeq(text, MatchEnd(FenceOpener, 1, text, 0, FALSE) + 1, Len(text) - Len(Fence3) - 1)

\* C17: format_message removes a fence only when the whole trimmed response
\* is one fenced block, and then removes exactly that enclosing fence; every
\* other response is returned trimmed and otherwise unchanged.
C17_OnlyEnclosingFenceRemoved ==
    call.op = "format_message" =>
        LET trimmed == Strip(call.raw_message)
        IN  call.result = IF EntirelyFenced(trimmed) THEN FencedContent(trimmed)
                          ELSE trimmed

\* C18: the formatting pass is idempotent: applied to its own result, or to
\* what the provider returned, it changes nothing.
C18_FormatIdempotent ==
    (call.op = "format_message" /\ call.passes >= 2) => call.result = call.raw_message

(***************************************************************************)
(* The cache as a state machine: one CommitMessageCache on a directory     *)
(* that starts empty; get, set, clear and clear_expired are called in any  *)
(* order while time passes.  cache_log keeps, for every (model, diff) that *)
(* was set, the message and the time of its last set and whether a clear   *)
(* came after it.                                                          *)
(***************************************************************************)
MaxTicks == 2

\* time.time() when the cache is made: long after the epoch
StartTime == 20000 * ExpiryTime

\* time passes in steps of the expiry time: an entry is as old as that, and
\* not expired, after one step
TickLength == ExpiryTime

\* the (model, diff) pairs the cache is asked about
CachePairs ==
    {<<<<"m">>, <<"d">>>>,
     <<<<"m">>, <<"x", ":", "d">>>>,
     <<<<"m", ":", "x">>, <<"d">>>>}
CacheMessages == {<<"A">>, <<"B">>}

CacheGet(diff_content, model) ==
    /\ call' = [op |-> "get", diff_content |-> diff_content, model |-> model,
                now |-> clock, before |-> cache_files,
                result |-> Get(cache_files, clock, diff_content, model).result]
    /\ cache_files' = Get(cache_files, clock, diff_content, model).files
    /\ UNCHANGED <<diff, template_config, cwd, file_system, response, cache_log, clock,
                   config_vars, processes>>

CacheSet(diff_content, model, message) ==
    /\ call' = [op |-> "set", diff_content |-> diff_content, model |-> model,
                message |-> message, before |-> cache_files]
    /\ cache_files' = Set(cache_files, clock, diff_content, model, message)
    /\ cache_log' = (<<model, diff_content>> :>
                        [message |-> message, timestamp |-> clock, cleared |-> FALSE])
                    @@ cache_log
    /\ UNCHANGED <<diff, template_config, cwd, file_system, response, clock,
                   config_vars, processes>>

CacheClear ==
    /\ cache_files # <<>>
    /\ call' = [op |-> "clear", result |-> Clear(cache_files).result]
    /\ cache_files' = Clear(cache_files).files
    /\ cache_log' = [q \in DOMAIN cache_log |-> [cache_log[q] EXCEPT !.cleared = TRUE]]
    /\ UNCHANGED <<diff, template_config, cwd, file_system, response, clock,
                   config_vars, processes>>

CacheClearExpired ==
    /\ cache_files # <<>>
    /\ call' = [op |-> "clear_expired", result |-> ClearExpired(cache_files, clock).result]
    /\ cache_files' = ClearExpired(cache_files, clock).files
    /\ UNCHANGED <<diff, template_config, cwd, file_system, response, cache_log, clock,
                   config_vars, processes>>

Tick ==
    /\ clock < StartTime + MaxTicks * TickLength
    /\ clock' = clock + TickLength
    /\ UNCHANGED <<diff, call, template_config, cwd, file_system, response,
                   cache_files, cache_log, config_vars, processes>>

InitCache ==
    /\ DefaultSettings
    /\ diff = <<>>
    /\ call = NoCall
    /\ template_config = DefaultConfig
    /\ cwd = RepoDir
    /\ file_system = PlainFiles
    /\ response = <<>>
    /\ cache_files = <<>>
    /\ cache_log = <<>>
    /\ clock = StartTime

NextCache ==
    \/ \E pair \in CachePairs : CacheGet(pair[2], pair[1])
    \/ \E pair \in CachePairs, message \in CacheMessages :
          CacheSet(pair[2], pair[1], message)
    \/ CacheClear
    \/ CacheClearExpired
    \/ Tick

SpecCache == InitCache /\ [][NextCache]_vars

\* C19: two distinct (model, diff) pairs have distinct cache keys, so a set
\* for one pair leaves what get returns for every other pair as it was.
C19_DistinctPairsDistinctKeys ==
    call.op = "set" =>
        \A other \in CachePairs \ {<<call.model, call.diff_content>>} :
            /\ GetCacheKey(other[2], other[1]) # GetCacheKey(call.diff_content, call.model)
            /\ Get(cache_files, clock, other[2], other[1]).result
                  = Get(call.before, clock, other[2], other[1]).result

\* C20: get for a pair that was set, not cleared since and not expired
\* returns the message of the last set for that pair; get for a pair that
\* was never set returns None.
C20_GetReturnsLastSet ==
    call.op = "get" =>
        LET pair == <<call.model, call.diff_content>>
        IN  IF pair \in DOMAIN cache_log
            THEN (~cache_log[pair].cleared /\ clock - cache_log[pair].timestamp <= ExpiryTime)
                    => call.result = Some(cache_log[pair].message)
            ELSE call.result = NoneValue

\* the file get looked for, as it was before the call
EntryBefore == call.before[GetCachePath(GetCacheKey(call.diff_content, call.model))]

\* get found a readable entry that carries its time of writing
FoundTimedEntry ==
    /\ call.op = "get"
    /\ GetCachePath(GetCacheKey(call.diff_content, call.model)) \in DOMAIN call.before
    /\ EntryBefore.valid
    /\ "timestamp" \in DOMAIN EntryBefore.data

\* C21: get on an entry older than 24 hours returns None and the entry is
\* gone afterwards; get on an entry not older than 24 hours returns its
\* message and keeps the entry.
C21_ExpiredPurgedFreshKept ==
    FoundTimedEntry =>
        LET cache_path == GetCachePath(GetCacheKey(call.diff_content, call.model))
            age == call.now - EntryBefore.data.timestamp
        IN  IF age > 24 * 60 * 60
            THEN /\ call.result = NoneValue
                 /\ cache_path \notin DOMAIN cache_files
            ELSE /\ call.result = DictGet(EntryBefore.data, "message", NoneValue)
                 /\ cache_path \in DOMAIN cache_files
                 /\ cache_files[cache_path] = EntryBefore

\* get returned the message of an entry exactly 24 hours old
C21_Witness ==
    /\ FoundTimedEntry
    /\ call.now - EntryBefore.data.timestamp = 24 * 60 * 60
    /\ call.result # NoneValue

(***************************************************************************)
(* The cache on a directory that holds a file from earlier: one that       *)
(* cannot be opened or is no JSON, or a JSON object written at some time   *)
(* with or without its fields                                              *)
(***************************************************************************)
LeftoverEntries ==
    {[valid |-> FALSE, data |-> <<>>],
     [valid |-> TRUE, data |-> <<>>],
     [valid |-> TRUE, data |-> [model |-> <<"m">>, timestamp |-> StartTime]],
     [valid |-> TRUE, data |-> [message |-> Some(<<"A">>), model |-> <<"m">>]],
     [valid |-> TRUE,
      data |-> [message |-> Some(<<"A">>), model |-> <<"m">>, timestamp |-> StartTime]],
     [valid |-> TRUE,
      data |-> [message |-> Some(<<"A">>), model |-> <<"m">>,
                timestamp |-> StartTime - 2 * ExpiryTime]]}

InitCacheFiles ==
    /\ DefaultSettings
    /\ diff = <<>>
    /\ call = NoCall
    /\ template_config = DefaultConfig
    /\ cwd = RepoDir
    /\ file_system = PlainFiles
    /\ response = <<>>
    /\ cache_files \in {GetCachePath(GetCacheKey(pair[2], pair[1])) :> entry :
                           pair \in CachePairs, entry \in LeftoverEntries}
    /\ cache_log = <<>>
    /\ clock = StartTime

SpecCacheFiles == InitCacheFiles /\ [][NextCache]_vars

\* get met a file under the key it looked for
FoundFile ==
    /\ call.op = "get"
    /\ GetCachePath(GetCacheKey(call.diff_content, call.model)) \in DOMAIN call.before

\* C22: get on an entry that cannot be read or is not valid JSON returns
\* None and removes the entry; get on an entry without a message field
\* returns None.
C22_BadEntryGivesNone ==
    FoundFile =>
        /\ ~EntryBefore.valid =>
              /\ call.result = NoneValue
              /\ GetCachePath(GetCacheKey(call.diff_content, call.model))
                    \notin DOMAIN cache_files
        /\ (EntryBefore.valid /\ "message" \notin DOMAIN EntryBefore.data) =>
              call.result = NoneValue

\* get met a file that is no JSON, and the file is gone
C22_Witness ==
    /\ FoundFile
    /\ ~EntryBefore.valid
    /\ call.result = NoneValue
    /\ cache_files = <<>>

(***************************************************************************)
(* The configuration objects: GlobalConfig built from the tables of the    *)
(* configuration file, fields assigned on the object, the object saved     *)
(***************************************************************************)
MinSubjectLength == 10
MaxSubjectLength == 200
MinRecentCommits == 0
MaxRecentCommits == 50
MinContextFileSize == 100
MaxContextFileSize == 1000000
MinTokens == 50
MaxTokensAllowed == 100000
MinTemperature == 0
MaxTemperature == 20

\* CommitTemplateConfig(**data) and AIConfig(**data): the field validators
\* of the class run on the values given; whether one raises ValueError
TemplateConfigRaises(data) ==
    \/ data.max_subject_length < MinSubjectLength
    \/ data.max_subject_length > MaxSubjectLength
    \/ data.max_recent_commits < MinRecentCommits
    \/ data.max_recent_commits > MaxRecentCommits
    \/ data.max_context_file_size < MinContextFileSize
    \/ data.max_context_file_size > MaxContextFileSize

AIConfigRaises(data) ==
    \/ data.max_tokens < MinTokens
    \/ data.max_tokens > MaxTokensAllowed
    \/ data.temperature < MinTemperature
    \/ data.temperature > MaxTemperature

GlobalConfigRaises(data) == AIConfigRaises(data.ai) \/ TemplateConfigRaises(data.template)

\* the tables load_config reads: those of the file, or none and so the defaults
ConfigData(file) ==
    IF file = NoneValue
    THEN [ai |-> DefaultAIConfig, template |-> DefaultConfig]
    ELSE file[1]

\* object.field = value on a model that was declared without
\* validate_assignment: the attribute is stored, no validator runs
SetAttr(object, field, value) == [object EXCEPT ![field] = value]

\* values inside and outside the ranges
SubjectLengths == {MinSubjectLength - 1, 50, MaxSubjectLength + 1}

RecentCommitCounts == {MinRecentCommits - 1, 5}

ContextFileSizes == {10000, MaxContextFileSize + 1}

TokenCounts == {MinTokens - 1, 500, MaxTokensAllowed + 1}

Temperatures == {MinTemperature - 1, 1, MaxTemperature + 1}

TemplateFieldValues ==
    {<<"max_subject_length", v>> : v \in SubjectLengths}
        \cup {<<"max_recent_commits", v>> : v \in RecentCommitCounts}
        \cup {<<"max_context_file_size", v>> : v \in ContextFileSizes}

AIFieldValues ==
    {<<"max_tokens", v>> : v \in TokenCounts}
        \cup {<<"temperature", v>> : v \in Temperatures}

\* the configuration file edited by hand: one key of one table set
EditConfigFile ==
    /\ \/ \E fv \in TemplateFieldValues :
             config_file' = Some([ConfigData(config_file)
                                     EXCEPT !.template[fv[1]] = fv[2]])
       \/ \E fv \in AIFieldValues :
             config_file' = Some([ConfigData(config_file) EXCEPT !.ai[fv[1]] = fv[2]])
    /\ call' = [op |-> "edit_file", raised |-> ""]
    /\ UNCHANGED <<diff, template_config, cwd, file_system, response, cache_vars,
                   ai_config, processes>>

\* ConfigManager.load_config: the object is made from the tables, or the
\* validation error is raised again as ValueError
LoadConfig ==
    /\ IF GlobalConfigRaises(ConfigData(config_file))
       THEN /\ call' = [op |-> "load_config", raised |-> "ValueError"]
            /\ UNCHANGED <<ai_config, template_config>>
       ELSE /\ call' = [op |-> "load_config", raised |-> ""]
            /\ ai_config' = ConfigData(config_file).ai
            /\ template_config' = ConfigData(config_file).template
    /\ UNCHANGED <<diff, cwd, file_system, response, cache_vars, config_file,
                   processes>>

\* config.template.<field> = value
AssignTemplateField ==
    /\ \E fv \in TemplateFieldValues :
          /\ template_config' = SetAttr(template_config, fv[1], fv[2])
          /\ call' = [op |-> "setattr", raised |-> ""]
    /\ UNCHANGED <<diff, cwd, file_system, response, cache_vars, config_vars, processes>>

\* config.ai.<field> = value
AssignAIField ==
    /\ \E fv \in AIFieldValues :
          /\ ai_config' = SetAttr(ai_config, fv[1], fv[2])
          /\ call' = [op |-> "setattr", raised |-> ""]
    /\ UNCHANGED <<diff, template_config, cwd, file_system, response, cache_vars,
                   config_file, processes>>

\* ConfigManager.save_config: model_dump of the object written to the file
SaveConfig ==
    /\ config_file' = Some([ai |-> ai_config, template |-> template_config])
    /\ call' = [op |-> "save_config", raised |-> ""]
    /\ UNCHANGED <<diff, template_config, cwd, file_system, response, cache_vars,
                   ai_config, processes>>

\* an argument of configure_smart_commit that was given, or the value kept
Given(argument, kept) == IF argument = NoneValue THEN kept ELSE argument[1]

\* configure_smart_commit without a provider: load, assign what was given,
\* save.  A load that raises is answered with the error and nothing is saved
ConfigureSmartCommit ==
    /\ \E max_tokens \in {NoneValue} \cup {Some(v) : v \in TokenCounts},
          temperature \in {NoneValue} \cup {Some(v) : v \in Temperatures},
          max_subject_length \in {NoneValue} \cup {Some(v) : v \in SubjectLengths} :
          IF GlobalConfigRaises(ConfigData(config_file))
          THEN /\ call' = [op |-> "configure_smart_commit", raised |-> "ValueError"]
               /\ UNCHANGED <<ai_config, template_config, config_file>>
          ELSE LET loaded == ConfigData(config_file)
                   ai == SetAttr(SetAttr(loaded.ai, "max_tokens",
                                         Given(max_tokens, loaded.ai.max_tokens)),
                                 "temperature",
                                 Given(temperature, loaded.ai.temperature))
                   template == SetAttr(loaded.template, "max_subject_length",
                                       Given(max_subject_length,
                                             loaded.template.max_subject_length))
               IN  /\ ai_config' = ai
                   /\ template_config' = template
                   /\ config_file' = Some([ai |-> ai, template |-> template])
                   /\ call' = [op |-> "configure_smart_commit", raised |-> ""]
    /\ UNCHANGED <<diff, cwd, file_system, response, cache_vars, processes>>

InitConfig ==
    /\ diff = <<>>
    /\ call = NoCall
    /\ template_config = DefaultConfig
    /\ cwd = RepoDir
    /\ file_system = PlainFiles
    /\ NoResponseEmptyCache
    /\ DefaultSettings

NextConfig ==
    \/ EditConfigFile
    \/ LoadConfig
    \/ AssignTemplateField
    \/ AssignAIField
    \/ SaveConfig
    \/ ConfigureSmartCommit

SpecConfig == InitConfig /\ [][NextConfig]_vars

\* C23: the numeric settings of the configuration object are in range at
\* all times: max_tokens in [50, 100000], temperature in [0.0, 2.0],
\* max_subject_length in [10, 200], max_recent_commits in [0, 50],
\* max_context_file_size in [100, 1000000], after construction, loading and
\* every assignment to a field.
C23_SettingsAlwaysInRange ==
    /\ ai_config.max_tokens \in MinTokens..MaxTokensAllowed
    /\ ai_config.temperature \in MinTemperature..MaxTemperature
    /\ template_config.max_subject_length \in MinSubjectLength..MaxSubjectLength
    /\ template_config.max_recent_commits \in MinRecentCommits..MaxRecentCommits
    /\ template_config.max_context_file_size
          \in MinContextFileSize..MaxContextFileSize

(***************************************************************************)
(* check_sensitive_files and _parse_diff_files on the same headers, some   *)
(* of whose paths hold a space                                             *)
(***************************************************************************)
MaxSensitiveLines == 3

SensitiveLinePool ==
    {Header(<<".","e","n","v">>),
     Header(<<"x",".","p","y">>),
     Header(<<"k"," ",".","p","e","m">>),
     Header(<<"s"," ","x","x","i","d","_","r","s","a">>),
     <<"+","x">>}

InitSensitive ==
    /\ diff \in TextsOf(SensitiveLinePool, MaxSensitiveLines)
    /\ call = NoCall
    /\ AnalyserEnvironment

NextSensitive ==
    \/ DoCheckSensitiveFiles
    \/ DoParseDiffFiles

SpecSensitive == InitSensitive /\ [][NextSensitive]_vars

\* the paths _parse_diff_files records, header by header: the path of the
\* record its header branch makes for the line, if it makes one
RecordedPaths(diff_content) ==
    LET lines == Split(diff_content, NL)
        Recorded(line) == IsHeader(line) /\ StartNewFile(ParseInit, line).heap # <<>>
        hs == SelectSeq(lines, Recorded)
    IN  [i \in 1..Len(hs) |-> StartNewFile(ParseInit, hs[i]).heap[1].path]

\* C24: check_sensitive_files tests and returns, for every file header, the
\* path the diff parser records for that header (what follows ' b/'), also
\* when the path holds spaces: its result is the sensitive ones among the
\* recorded paths, one entry per header at most, in header order.
C24_SensitiveFilesAreParserPaths ==
    call.op = "check_sensitive_files" =>
        call.result = SelectSeq(RecordedPaths(diff), IsSensitiveFile)

(***************************************************************************)
(* analyze_commit_split on files under src, lib-like and app directories   *)
(* and at the root, against the directory scope of detect_scope_from_diff  *)
(***************************************************************************)
GroupingPaths ==
    <<<<"a","p","p","/","p","/","a",".","p","y">>,
      <<"a","p","p","/","q","/","b",".","p","y">>,
      <<"s","r","c","/","m","/","a",".","p","y">>,
      <<"s","r","c","/","m","/","b",".","p","y">>,
      <<"x",".","p","y">>,
      <<"y",".","p","y">>,
      <<"u","/","a",".","p","y">>,
      <<"u","/","b",".","p","y">>,
      <<"t","e","s","t","s","/","a",".","p","y">>,
      <<"c",".","j","s","o","n">>>>

\* the headers of the chosen paths, in the order of GroupingPaths
GroupingText(chosen) ==
    LET Chosen(i) == i \in chosen
        idx == SelectSeq([i \in 1..Len(GroupingPaths) |-> i], Chosen)
    IN  Join([k \in 1..Len(idx) |-> Header(GroupingPaths[idx[k]])], <<NL>>)

InitGrouping ==
    /\ diff \in {GroupingText(c) : c \in SUBSET (1..Len(GroupingPaths))}
    /\ call = NoCall
    /\ AnalyserEnvironment

NextGrouping == DoAnalyzeCommitSplit \/ DoDetectScopeFromDiff

SpecGrouping == InitGrouping /\ [][NextGrouping]_vars

\* the scope detect_scope_from_diff takes from the directories of a path:
\* parts[1] under src, lib or app, parts[0] under another directory, none
\* for a file at the root
DirectoryScope(filepath) ==
    LET parts == Split(filepath, "/")
    IN  IF Len(parts) > 1
        THEN IF parts[1] \in GenericDirs THEN Some(parts[2]) ELSE Some(parts[1])
        ELSE NoneValue

\* C26: the files analyze_commit_split has left after the Tests,
\* Documentation and Configuration groups are grouped by the directory scope
\* detect_scope_from_diff computes for the path (the second segment under
\* src, lib or app, otherwise the first), and a scope group is emitted only
\* if it holds at least 2 files.
C26_ScopeGroupsFollowDirectoryScope ==
    (call.op = "analyze_commit_split" /\ Len(call.files_data) > NoSplitMax) =>
        LET Categorised(f) ==
                IsTestFile(f.path) \/ IsDocFile(f.path) \/ IsConfigFile(f.path)
            Left(f) == ~Categorised(f)
            remaining == PathsOf(SelectSeq(call.files_data, Left))
            scopes == {DirectoryScope(remaining[i])[1] :
                          i \in {j \in 1..Len(remaining) :
                                    DirectoryScope(remaining[j]) # NoneValue}}
            Under(scope) ==
                LET Has(path) == DirectoryScope(path) = Some(scope)
                IN  SelectSeq(remaining, Has)
            emitted == {[scope |-> call.result[i].scope, files |-> call.result[i].files] :
                           i \in {j \in 1..Len(call.result) :
                                     call.result[j].priority = ScopePriority}}
        IN  emitted = {[scope |-> scope, files |-> Under(scope)] :
                          scope \in {sc \in scopes : Len(Under(sc)) >= 2}}

(***************************************************************************)
(* The generate command (cli.py), without --template: one run from the     *)
(* loading of the configuration to the display of the message.  options    *)
(* holds the command-line options, environment what the run finds outside  *)
(* the program: AI_MODEL, AI_API_KEY, the repository context and           *)
(* configuration, the answers of the user and of the language model.       *)
(* The repository configurations carry no ignore_patterns, so the filtered *)
(* diff is the staged diff.                                                *)
(***************************************************************************)
\* a run that ends with exit code 1 at a stage
GenerateEnded(stage, raised, model, prompt, cache_read, cache) ==
    [stage |-> stage, raised |-> raised, exit_code |-> 1, model |-> model,
     prompt |-> prompt, cache_read |-> cache_read, generated |-> FALSE,
     cache_written |-> FALSE, commit_message |-> NoneValue, cache |-> cache]

\* cli.py:270-312, once the prompt is built and the cache was asked (got)
GenerateMessage(options, environment, model, prompt, cache_read, got, now, staged_changes) ==
    IF got.result # NoneValue
    THEN [stage |-> "done", raised |-> "", exit_code |-> 0, model |-> model,
          prompt |-> prompt, cache_read |-> cache_read, generated |-> FALSE,
          cache_written |-> FALSE, commit_message |-> got.result,
          cache |-> got.files]
    ELSE IF environment.answer = NoneValue
    THEN GenerateEnded("ai", "Exception", model, prompt, cache_read, got.files)
    ELSE [stage |-> "done", raised |-> "", exit_code |-> 0, model |-> model,
          prompt |-> prompt, cache_read |-> cache_read, generated |-> TRUE,
          cache_written |-> ~options.privacy,
          commit_message |-> Some(FormatMessage(environment.answer[1])),
          cache |-> IF options.privacy THEN got.files
                    ELSE Set(got.files, now, staged_changes, model,
                             FormatMessage(environment.answer[1]))]

\* cli.py:258-279: the outcome of the build_prompt call, then the cache
GeneratePrompted(options, environment, model, outcome, cache, now, staged_changes) ==
    IF outcome.raised # ""
    THEN GenerateEnded("prompt", outcome.raised, model, NoneValue, FALSE, cache)
    ELSE GenerateMessage(options, environment, model, Some(outcome.prompt),
                         ~options.no_cache /\ ~options.privacy,
                         IF ~options.no_cache /\ ~options.privacy
                         THEN Get(cache, now, staged_changes, model)
                         ELSE [result |-> NoneValue, files |-> cache],
                         now, staged_changes)

\* cli.py:139-268, once the configuration is loaded and the model is known
GenerateConfigured(options, environment, data, model, validation, dir_files, wd, cache, now, staged_changes) ==
    IF ~environment.AI_API_KEY
    THEN GenerateEnded("credentials", "", model, NoneValue, FALSE, cache)
    ELSE IF staged_changes = <<>>
    THEN GenerateEnded("staged", "", model, NoneValue, FALSE, cache)
    ELSE IF validation.warnings # <<>> /\ ~validation.is_valid
            /\ ~environment.continue_anyway
    THEN GenerateEnded("size", "", model, NoneValue, FALSE, cache)
    ELSE IF (DetectSensitiveData(staged_changes) # <<>>
             \/ CheckSensitiveFiles(staged_changes) # <<>>)
            /\ ~environment.sure
    THEN GenerateEnded("sensitive", "", model, NoneValue, FALSE, cache)
    ELSE GeneratePrompted(
             options, environment, model,
             CallBuildPrompt(data.template, dir_files, wd,
                             [diff_content |-> staged_changes,
                              repo_context |-> environment.repo_context,
                              repo_config |-> IF options.privacy THEN NoneValue
                                              ELSE environment.repo_config,
                              additional_context |-> options.message,
                              privacy_mode |-> options.privacy]),
             cache, now, staged_changes)

\* cli.py:131-141: load_config, then AI_MODEL or the model of the configuration
GenerateLoaded(options, environment, data, dir_files, wd, cache, now, staged_changes) ==
    IF GlobalConfigRaises(data)
    THEN GenerateEnded("config", "ValueError", data.ai.model, NoneValue, FALSE, cache)
    ELSE GenerateConfigured(
             options, environment, data,
             IF TruthyStr(environment.AI_MODEL)
             THEN environment.AI_MODEL[1] ELSE data.ai.model,
             ValidateDiffSize(staged_changes, DefaultMaxLines, DefaultMaxChars),
             dir_files, wd, cache, now, staged_changes)

GenerateRun(options, environment, file, dir_files, wd, cache, now, staged_changes) ==
    GenerateLoaded(options, environment, ConfigData(file), dir_files, wd, cache, now,
                   staged_changes)

GenerateModels == {NoneValue, Some(<<"m">>)}

GenerateDiffs ==
    {<<"d","i","f","f"," ","-","-","g","i","t"," ","a","/","x"," ","b","/","x","\n","+","a">>,
     <<"d","i","f","f"," ","-","-","g","i","t"," ","a","/","y"," ","b","/","y","\n","-","b">>}

GenerateOptions ==
    [privacy : BOOLEAN, no_cache : BOOLEAN, message : PromptMessages]

GenerateEnvironments ==
    [AI_MODEL : GenerateModels, AI_API_KEY : BOOLEAN,
     repo_context : {CHOOSE c \in PromptContexts : c.description = NoneValue},
     repo_config : {Some(RelativeRepoConfig)},
     continue_anyway : {TRUE}, sure : {TRUE},
     answer : {NoneValue, Some(<<" ","f","i","x",":"," ","a","\n">>)}]

\* the state a run leaves
Ran(options, environment, run) ==
    /\ call' = [op |-> "generate", options |-> options,
                ai_answers |-> environment.answer # NoneValue,
                staged_changes |-> diff, before |-> cache_files,
                run |-> [run EXCEPT !.cache = <<>>],
                previous |-> IF call.op = "generate"
                             THEN Some([staged_changes |-> call.staged_changes,
                                        run |-> [stage |-> call.run.stage,
                                                 model |-> call.run.model,
                                                 prompt |-> call.run.prompt]])
                             ELSE NoneValue]
    /\ cache_files' = run.cache
    /\ response' = IF run.generated THEN environment.answer[1] ELSE response
    /\ UNCHANGED <<diff, template_config, cwd, file_system, cache_log, clock,
                   config_vars, processes>>

\* smart-commit generate [--privacy] [--no-cache] [-m message] --dry-run
Generate ==
    \E options \in GenerateOptions, environment \in GenerateEnvironments :
        Ran(options, environment,
            GenerateRun(options, environment, config_file, file_system, cwd,
                        cache_files, clock, diff))

\* git add: other changes are staged
StageChanges ==
    /\ \E staged \in GenerateDiffs \cup {<<>>} :
          /\ staged # diff
          /\ diff' = staged
    /\ UNCHANGED <<call, template_config, cwd, file_system, response, cache_vars,
                   config_vars, processes>>

InitGenerate ==
    /\ diff \in GenerateDiffs
    /\ call = NoCall
    /\ template_config = DefaultConfig
    /\ cwd = RepoDir
    /\ file_system = PlainFiles
    /\ response = <<>>
    /\ cache_files = <<>>
    /\ cache_log = <<>>
    /\ clock = StartTime
    /\ DefaultSettings

NextGenerate == Generate \/ StageChanges

SpecGenerate == InitGenerate /\ [][NextGenerate]_vars

\* the run got as far as building its prompt: its model and its filtered
\* diff, and so its cache entry, were settled
ResolvedEntry(run) == run.stage \in {"prompt", "ai", "done"}

\* C27: two generate runs that resolve to the same cache entry (same model,
\* same filtered diff) built byte-identical prompts, whatever additional
\* context and configuration each used; so a cached message is only used
\* by a run whose prompt is the one it was generated from.
C27_SameEntrySamePrompt ==
    (/\ call.op = "generate"
     /\ call.previous # NoneValue
     /\ ResolvedEntry(call.run)
     /\ ResolvedEntry(call.previous[1].run)
     /\ call.run.model = call.previous[1].run.model
     /\ call.staged_changes = call.previous[1].staged_changes) =>
        /\ call.run.prompt # NoneValue
        /\ call.run.prompt = call.previous[1].run.prompt

\* C29: a generate run with privacy mode on neither reads nor writes the
\* cache, whatever --no-cache says and whether or not the AI call succeeds;
\* a run with privacy off and --no-cache does not read the cache and still
\* writes the message it has generated, when the language model answers.
C29_PrivacyBypassesCache ==
    call.op = "generate" =>
        /\ call.options.privacy =>
              /\ ~call.run.cache_read
              /\ ~call.run.cache_written
              /\ cache_files = call.before
        /\ (/\ ~call.options.privacy
            /\ call.options.no_cache
            /\ ResolvedEntry(call.run)
            /\ call.ai_answers) =>
              /\ ~call.run.cache_read
              /\ call.run.cache_written
              /\ GetCachePath(GetCacheKey(call.staged_changes, call.run.model))
                    \in DOMAIN cache_files

(***************************************************************************)
(* suggest_git_commands on the groups of analyze_commit_split, and what    *)
(* the suggested commands do to the staged files when they are run in      *)
(* order                                                                   *)
(***************************************************************************)
SuggestGitCommands(groups) ==
    <<[description |-> <<"R","e","s","e","t"," ","s","t","a","g","i","n","g"," ","a","r","e","a">>,
       command |-> <<"g","i","t"," ","r","e","s","e","t">>]>>
    \o [i \in 1..Len(groups) |->
          [description |-> <<"C","o","m","m","i","t"," ">> \o Decimal(i) \o <<":", " ">> \o groups[i].name,
           command |->
              <<"g","i","t"," ","a","d","d"," ">>
              \o Join([k \in 1..Len(groups[i].files) |->
                           <<"\"">> \o groups[i].files[k] \o <<"\"">>], <<" ">>)
              \o <<" ","&","&"," ","g","i","t"," ","c","o","m","m","i","t">>]]

\* the words a shell command holds between double quotes
QuotedWords(command) ==
    LET IsQuote(i) == command[i] = "\""
        quotes == SelectSeq([i \in 1..Len(command) |-> i], IsQuote)
    IN  {SubSeq(command, quotes[2 * k - 1] + 1, quotes[2 * k] - 1) :
            k \in 1..(Len(quotes) \div 2)}

\* git reset unstages everything; git add <files> && git commit stages the
\* named files that have changes and commits all that is staged
RECURSIVE RunGitCommands(_, _)
RunGitCommands(index, commands) ==
    IF commands = <<>> THEN index
    ELSE LET command == Head(commands).command
             added == QuotedWords(command) \cap index.unstaged
         IN  RunGitCommands(
                 IF command = <<"g","i","t"," ","r","e","s","e","t">>
                 THEN [index EXCEPT !.staged = {},
                                    !.unstaged = index.unstaged \cup index.staged]
                 ELSE [staged |-> {},
                       unstaged |-> index.unstaged \ added,
                       committed |-> index.committed \cup index.staged \cup added],
                 Tail(commands))

DoSuggestGitCommands ==
    /\ call.op = "none"
    /\ call' = [op |-> "suggest_git_commands",
                files_data |-> ParseDiffFiles(diff),
                groups |-> AnalyzeCommitSplit(diff),
                result |-> SuggestGitCommands(AnalyzeCommitSplit(diff))]
    /\ UNCHANGED <<diff, template_config, cwd, file_system, response, cache_vars,
                   config_vars, processes>>

SpecCommands == InitSplit /\ [][DoSuggestGitCommands]_vars

\* the paths parsed from the diff: the files staged before the commands run
ParsedPaths == {call.files_data[i].path : i \in 1..Len(call.files_data)}

\* the files left uncommitted when the suggested commands have been run
LeftUncommitted ==
    LET index == RunGitCommands([staged |-> ParsedPaths, unstaged |-> {},
                                 committed |-> {}], call.result)
    IN  index.staged \cup index.unstaged

InSomeGroup(path) ==
    \E i \in 1..Len(call.groups) :
        \E k \in 1..Len(call.groups[i].files) : call.groups[i].files[k] = path

\* C28 as claimed: whenever analyze_commit_split returns a non-empty list,
\* every file parsed from the diff belongs to at least one returned group,
\* and running the steps of suggest_git_commands leaves no originally
\* staged file uncommitted.
C28_EveryFileCommitted ==
    (call.op = "suggest_git_commands" /\ call.groups # <<>>) =>
        /\ \A path \in ParsedPaths : InSomeGroup(path)
        /\ LeftUncommitted = {}

\* the files that match none of Tests, Documentation and Configuration and
\* share their scope with no other such file
LoneFiles ==
    LET Categorised(f) ==
            IsTestFile(f.path) \/ IsDocFile(f.path) \/ IsConfigFile(f.path)
        rest == {i \in 1..Len(call.files_data) : ~Categorised(call.files_data[i])}
    IN  {call.files_data[i].path :
            i \in {j \in rest :
                      \A l \in rest :
                          l # j => ScopeOfPath(call.files_data[l].path)
                                      # ScopeOfPath(call.files_data[j].path)}}

\* C28: whenever analyze_commit_split returns a non-empty list, every file
\* parsed from the diff belongs to at least one returned group, except the
\* files that match none of Tests, Documentation and Configuration and share
\* their scope with no other such file, which belong to none; running the
\* suggested commands leaves exactly those files uncommitted.
C28_AllButLoneFilesCommitted ==
    (call.op = "suggest_git_commands" /\ call.groups # <<>>) =>
        /\ \A path \in ParsedPaths : InSomeGroup(path) <=> path \notin LoneFiles
        /\ LeftUncommitted = LoneFiles

\* a split was suggested and running it leaves a file behind
C28_Witness ==
    /\ call.op = "suggest_git_commands"
    /\ call.groups # <<>>
    /\ LeftUncommitted # {}
    /\ LeftUncommitted # ParsedPaths

(***************************************************************************)
(* A get and a set on the same (diff, model) in two processes, step by     *)
(* step through their file operations on a POSIX file system.  open(path,  *)
(* 'w') creates or truncates the file in place; what json.dump writes      *)
(* reaches the file when the file object is closed; unlink removes the     *)
(* directory entry, and a process that holds the file open then writes to  *)
(* a file no path leads to.  A file whose content is not yet written is    *)
(* [valid |-> FALSE].                                                      *)
(***************************************************************************)
RacePath == GetCachePath(GetCacheKey(processes.diff_content, processes.model))

GetStep(pc, result) ==
    processes' = [processes EXCEPT !.get.pc = pc, !.get.result = result]

\* if not cache_path.exists(): return None
GetExists ==
    /\ processes.get.pc = "exists"
    /\ IF RacePath \in DOMAIN cache_files
       THEN GetStep("open", NoneValue)
       ELSE GetStep("done", NoneValue)
    /\ UNCHANGED <<diff, call, template_config, cwd, file_system, response, cache_vars,
                   config_vars>>

\* open(cache_path, 'r'): FileNotFoundError goes to the handler
GetOpen ==
    /\ processes.get.pc = "open"
    /\ IF RacePath \in DOMAIN cache_files
       THEN GetStep("load", NoneValue)
       ELSE GetStep("handler", NoneValue)
    /\ UNCHANGED <<diff, call, template_config, cwd, file_system, response, cache_vars,
                   config_vars>>

\* json.load(f) on the content the file has now, then the expiry test and
\* the return of the message
GetLoad ==
    /\ processes.get.pc = "load"
    /\ LET entry == cache_files[RacePath]
       IN  IF ~entry.valid THEN GetStep("handler", NoneValue)
           ELSE IF Expired(entry, clock) THEN GetStep("unlink", NoneValue)
           ELSE GetStep("done", DictGet(entry.data, "message", NoneValue))
    /\ UNCHANGED <<diff, call, template_config, cwd, file_system, response, cache_vars,
                   config_vars>>

\* cache_path.unlink() of the expired entry: whatever file the path names now
GetUnlinkExpired ==
    /\ processes.get.pc = "unlink"
    /\ IF RacePath \in DOMAIN cache_files
       THEN /\ cache_files' = Unlink(cache_files, RacePath)
            /\ processes' = [processes EXCEPT !.get.pc = "done",
                                              !.set.linked = FALSE]
       ELSE /\ GetStep("handler", NoneValue)
            /\ UNCHANGED cache_files
    /\ UNCHANGED <<diff, call, template_config, cwd, file_system, response, cache_log,
                   clock, config_vars>>

\* except ...: if cache_path.exists(): cache_path.unlink(); return None
GetHandler ==
    /\ processes.get.pc = "handler"
    /\ IF RacePath \in DOMAIN cache_files
       THEN /\ cache_files' = Unlink(cache_files, RacePath)
            /\ processes' = [processes EXCEPT !.get.pc = "done",
                                              !.set.linked = FALSE]
       ELSE /\ GetStep("done", NoneValue)
            /\ UNCHANGED cache_files
    /\ UNCHANGED <<diff, call, template_config, cwd, file_system, response, cache_log,
                   clock, config_vars>>

\* open(cache_path, 'w'): the file is created, or emptied in place
SetOpen ==
    /\ processes.set.pc = "open"
    /\ cache_files' = (RacePath :> [valid |-> FALSE, data |-> <<>>]) @@ cache_files
    /\ processes' = [processes EXCEPT !.set.pc = "close", !.set.linked = TRUE]
    /\ UNCHANGED <<diff, call, template_config, cwd, file_system, response, cache_log,
                   clock, config_vars>>

\* json.dump and the end of the with block: the content reaches the file
\* the process opened, if a path still leads to it
SetClose ==
    /\ processes.set.pc = "close"
    /\ cache_files' = IF processes.set.linked
                      THEN Set(cache_files, processes.set.timestamp,
                               processes.diff_content, processes.model,
                               processes.message)
                      ELSE cache_files
    /\ processes' = [processes EXCEPT !.set.pc = "done"]
    /\ UNCHANGED <<diff, call, template_config, cwd, file_system, response, cache_log,
                   clock, config_vars>>

\* the entries the key may have before the two calls: the message "A" set
\* just now, or set two expiry times ago
EarlierEntries ==
    {[valid |-> TRUE,
      data |-> [message |-> Some(<<"A">>), model |-> <<"m">>, timestamp |-> StartTime]],
     [valid |-> TRUE,
      data |-> [message |-> Some(<<"A">>), model |-> <<"m">>,
                timestamp |-> StartTime - 2 * ExpiryTime]]}

InitRace ==
    /\ diff = <<>>
    /\ call = NoCall
    /\ template_config = DefaultConfig
    /\ cwd = RepoDir
    /\ file_system = PlainFiles
    /\ response = <<>>
    /\ ai_config = DefaultAIConfig
    /\ config_file = <<>>
    /\ cache_log = <<>>
    /\ clock = StartTime
    /\ \E pair \in CachePairs, entry \in {NoneValue} \cup {Some(e) : e \in EarlierEntries} :
          /\ cache_files = IF entry = NoneValue THEN <<>>
                           ELSE GetCachePath(GetCacheKey(pair[2], pair[1])) :> entry[1]
          /\ processes = [diff_content |-> pair[2], model |-> pair[1],
                          message |-> <<"B">>, earlier |-> entry,
                          get |-> [pc |-> "exists", result |-> NoneValue],
                          set |-> [pc |-> "open", linked |-> FALSE,
                                   timestamp |-> StartTime]]

NextRace ==
    \/ GetExists
    \/ GetOpen
    \/ GetLoad
    \/ GetUnlinkExpired
    \/ GetHandler
    \/ SetOpen
    \/ SetClose

SpecRace == InitRace /\ [][NextRace]_vars

\* both calls have returned
RaceOver ==
    /\ processes # <<>>
    /\ processes.get.pc = "done"
    /\ processes.set.pc = "done"

\* C30: when a get and a set for the same (diff, model) run concurrently in
\* two processes, every interleaving of their file operations ends with the
\* entry written by set present and valid, and the get returns None, the
\* message stored before or the new message: the get never deletes the
\* entry the set is writing.
C30_SetSurvivesConcurrentGet ==
    RaceOver =>
        /\ RacePath \in DOMAIN cache_files
        /\ cache_files[RacePath].valid
        /\ cache_files[RacePath].data.message = Some(processes.message)
        /\ processes.get.result \in
              {NoneValue, Some(processes.message)}
                 \cup (IF processes.earlier = NoneValue THEN {}
                       ELSE {processes.earlier[1].data.message})

====
